---- MODULE Spec2Model ----
(***************************************************************************)
(* Model of the mega-directory crawler (apps/crawler): the crawl run of    *)
(* Crawler.run with its dispatch to the API targets, the markup inference  *)
(* helpers (category rules, location extraction), slug normalization, and  *)
(* the manual import path of text_import.run_cli.                          *)
(*                                                                         *)
(* Python strings are sequences of one-character strings.  Python's None   *)
(* and a non-string value are the two sentinels None and NonStr, which no  *)
(* sequence of characters equals.                                          *)
(***************************************************************************)
EXTENDS Integers, Sequences, FiniteSets, TLC

VARIABLES
    slugPc,        \* SpecSlug: position of the slug round trip
    slugImpl,      \* which implementation is applied: "crawler" | "text_import"
    slugInput,     \* the string handed to slugify
    slugOnce,      \* slugify(s)
    slugTwice      \* slugify(slugify(s))

varsSlug == <<slugPc, slugImpl, slugInput, slugOnce, slugTwice>>

VARIABLES
    parsePc,       \* SpecParse: "input" before parse_listings, "parsed" after
    parseTarget,   \* the crawl target whose rules parse_listings applies
    parseHtml,     \* the page handed to parse_listings: a sequence of elements
    parsed         \* the listings parse_listings returned

varsParse == <<parsePc, parseTarget, parseHtml, parsed>>

VARIABLES
    runPc,         \* SpecRun: the statement of Crawler.run reached, "done" | "error"
    runConfig,     \* the config handed to run
    runLlm,        \* the llm_client of the crawler: "none" | "ok" | "raises"
    runApiTargets, \* api_targets of run
    runPlan,       \* the (target, location batch) pairs the loops of run visit
    runIdx,        \* position in the (target, location batch) pairs
    runListings,   \* listings of the current batch
    runBatches,    \* batches of run
    runPayloads,   \* payloads of _post_batch_to_api
    runApiIdx,     \* position of the loop over the API targets
    runEvents,     \* the calls of session.get and session.post, in order
    runHtml,       \* response.text of the GETs that succeeded, in order
    runRaised      \* the step that raised, "" while none has

varsRun == <<runPc, runConfig, runLlm, runApiTargets, runPlan, runIdx, runListings, runBatches,
             runPayloads, runApiIdx, runEvents, runHtml, runRaised>>

VARIABLES
    impPc,         \* SpecImport: "enrich" | "ingest" | "done" | "error"
    impListings,   \* the records the loader returned
    impDefaults,   \* ImportDefaults built from the arguments
    impDryRun,     \* args.dry_run
    impLlm,        \* the llm_client: "none" | "ok" | "raises"
    impConfig,     \* the post-processing config
    impIndex,      \* line_number of the record enrich is at
    impEnriched,   \* enriched of enrich
    impSuccessful, \* import_result.successful
    impFailed,     \* import_result.failed
    impWarnings,   \* import_result.warnings
    impReport,     \* the tallies of the saved report
    impPosts,      \* the calls of session.post by ingest
    impExit        \* the value run_cli returned, -1 before it has

varsImport == <<impPc, impListings, impDefaults, impDryRun, impLlm, impConfig, impIndex,
                impEnriched, impSuccessful, impFailed, impWarnings, impReport, impPosts,
                impExit>>

VARIABLES
    procPc,        \* SpecProcess: "input" | "returned" | "raised"
    procPayload,   \* the payload handed to process
    procContext,   \* the PostProcessingContext handed to process
    procConfig,    \* the post-processing config handed to process
    procLlm,       \* the llm_client of the processor: "none" | "ok" | "raises"
    procResponse,  \* what the client answers if it is invoked
    procResult     \* [ok, payload, calls] of the call

varsProcess == <<procPc, procPayload, procContext, procConfig, procLlm, procResponse,
                 procResult>>

VARIABLES
    mergePc,       \* SpecMerge: "input" | "resolved"
    mergeRoot,     \* post_processing of the root config
    mergeTarget,   \* post_processing of the crawl target
    merged         \* what _resolve_post_processing_config returned

varsMerge == <<mergePc, mergeRoot, mergeTarget, merged>>

VARIABLES
    clsPc,         \* SpecClassify: "input" | "assigned" | "raised"
    clsListings,   \* the listings handed to _assign_classifier_categories
    clsClassifier, \* category_classifier of the target
    clsLlm,        \* the llm_client of the field generator: "none" | "ok" | "raises"
    clsResponse,   \* what the client answers if it is invoked
    clsAfter,      \* the listings as the call left them
    clsInvoked,    \* listing by listing, how often the client was invoked
    clsSlug        \* what _resolve_classifier_slug made of the response

varsClassify == <<clsPc, clsListings, clsClassifier, clsLlm, clsResponse, clsAfter,
                  clsInvoked, clsSlug>>

vars == <<varsSlug, varsParse, varsRun, varsImport, varsProcess, varsMerge, varsClassify>>

\* What the actions of one specification leave alone.
notSlug == <<varsParse, varsRun, varsImport, varsProcess, varsMerge, varsClassify>>
notParse == <<varsSlug, varsRun, varsImport, varsProcess, varsMerge, varsClassify>>
notRun == <<varsSlug, varsParse, varsImport, varsProcess, varsMerge, varsClassify>>
notImport == <<varsSlug, varsParse, varsRun, varsProcess, varsMerge, varsClassify>>
notProcess == <<varsSlug, varsParse, varsRun, varsImport, varsMerge, varsClassify>>
notMerge == <<varsSlug, varsParse, varsRun, varsImport, varsProcess, varsClassify>>
notClassify == <<varsSlug, varsParse, varsRun, varsImport, varsProcess, varsMerge>>

-----------------------------------------------------------------------------
(* Values and strings *)

None == <<"<None>">>
NonStr == <<"<NonStr>">>

IsStr(v) == v # None /\ v # NonStr

\* Python truthiness of an optional string: None and "" are falsy.
Truthy(v) == v # None /\ v # <<>>

\* Python numbers and the values found in their place in a configuration.
AbsentNum == [kind |-> "absent", v |-> 0]   \* the key is not in the dict
NoNum == [kind |-> "none", v |-> 0]
IntNum(n) == [kind |-> "int", v |-> n]
FloatNum(n) == [kind |-> "float", v |-> n]
StrNum == [kind |-> "str", v |-> 0]

LowerLetters == {"a", "b"}
UpperLetters == {"A", "B"}
DigitChars == {"1"}
WhitespaceChars == {" ", "\n"}

\* str.lower() on one character
LowerChar(c) ==
    CASE c = "A" -> "a"
      [] c = "B" -> "b"
      [] OTHER -> c

Min(S) == CHOOSE x \in S : \A y \in S : x <= y
Max(S) == CHOOSE x \in S : \A y \in S : x >= y

\* str.lower()
Lower(s) == [i \in 1..Len(s) |-> LowerChar(s[i])]

\* [a-z0-9]: the characters _SLUG_INVALID_CHARS does not match
SlugValidChar(c) == c \in LowerLetters \cup DigitChars

\* str.lstrip(chars), str.rstrip(chars), str.strip(chars)
LStrip(s, chars) ==
    LET keep == {i \in 1..Len(s) : s[i] \notin chars}
    IN  IF keep = {} THEN <<>> ELSE SubSeq(s, Min(keep), Len(s))

RStrip(s, chars) ==
    LET keep == {i \in 1..Len(s) : s[i] \notin chars}
    IN  IF keep = {} THEN <<>> ELSE SubSeq(s, 1, Max(keep))

Strip(s, chars) == RStrip(LStrip(s, chars), chars)

RECURSIVE ConcatAll(_)
ConcatAll(seqs) == IF Len(seqs) = 0 THEN <<>> ELSE Head(seqs) \o ConcatAll(Tail(seqs))

\* needle in hay
Contains(hay, needle) ==
    \E i \in 0..(Len(hay) - Len(needle)) :
        \A j \in 1..Len(needle) : hay[i + j] = needle[j]

\* The part of s before the first character in `at` (all of s without one):
\* s.split(sep)[0], s.splitlines()[0].
Before(s, at) ==
    LET cut == {i \in 1..Len(s) : s[i] \in at}
    IN  IF cut = {} THEN s ELSE SubSeq(s, 1, Min(cut) - 1)

\* value[:n]
Prefix(s, n) == IF Len(s) <= n THEN s ELSE SubSeq(s, 1, n)

\* A substitution that replaces every invalid character by a hyphen of its
\* own, as _SLUG_INVALID_CHARS without the "+" would.
SubInvalidEach(s) ==
    [i \in 1..Len(s) |-> IF SlugValidChar(s[i]) THEN s[i] ELSE "-"]

\* _SLUG_INVALID_CHARS.sub("-", s): every maximal run of invalid characters
\* becomes one hyphen (its first character is replaced, the rest dropped).
SubInvalidRuns(s) ==
    LET marked == [i \in 1..Len(s) |->
                     IF SlugValidChar(s[i]) THEN s[i]
                     ELSE IF i = 1 \/ SlugValidChar(s[i - 1]) THEN "-"
                     ELSE "<dropped>"]
        Kept(c) == c # "<dropped>"
    IN  SelectSeq(marked, Kept)

-----------------------------------------------------------------------------
(* Slug normalization *)

MAX_SLUG_LENGTH == 80

\* The slug body shared by both implementations, with the trailing-hyphen
\* trim after truncation left out.
SlugBodyNoTrim(value, max_length) ==
    LET normalized == Strip(SubInvalidRuns(Lower(value)), {"-"})
    IN  IF max_length # 0 /\ Len(normalized) > max_length
        THEN Prefix(normalized, max_length)
        ELSE normalized

SlugBody(value, max_length) ==
    LET normalized == Strip(SubInvalidRuns(Lower(value)), {"-"})
    IN  IF max_length # 0 /\ Len(normalized) > max_length
        THEN RStrip(Prefix(normalized, max_length), {"-"})
        ELSE normalized

\* Crawler._slugify(value, max_length)
CrawlerSlugify(value, max_length) ==
    IF ~IsStr(value) THEN <<>> ELSE SlugBody(value, max_length)

\* text_import.slugify(value, max_length); a truthy non-string has no lower()
\* and raises, which no caller in the model reaches.
TextImportSlugify(value, max_length) ==
    IF ~Truthy(value) THEN <<>> ELSE SlugBody(value, max_length)

_slugify(value) == CrawlerSlugify(value, MAX_SLUG_LENGTH)
slugify(value) == TextImportSlugify(value, MAX_SLUG_LENGTH)

-----------------------------------------------------------------------------
(* SpecSlug: slugify applied twice to a bounded set of strings *)

MaxTail == 4

SlugAlphabet == {"a", "A", "1", "-", " "}

Repeat(c, n) == [i \in 1..n |-> c]

RECURSIVE StringsUpTo(_, _)
StringsUpTo(alphabet, n) ==
    IF n = 0 THEN {<<>>}
    ELSE LET shorter == StringsUpTo(alphabet, n - 1)
         IN  shorter \cup {s \o <<c>> : s \in shorter, c \in alphabet}

\* Short strings, and strings whose tail straddles the maximum slug length.
SlugPads == {0, MAX_SLUG_LENGTH - 2}

SlugInputs ==
    {Repeat("a", p) \o t : p \in SlugPads, t \in StringsUpTo(SlugAlphabet, MaxTail)}

ApplySlug(impl, value) ==
    IF impl = "crawler" THEN _slugify(value) ELSE slugify(value)

InitSlug ==
    /\ slugPc = "input"
    /\ slugImpl \in {"crawler", "text_import"}
    /\ slugInput \in SlugInputs
    /\ slugOnce = None
    /\ slugTwice = None

SlugifyOnce ==
    /\ slugPc = "input"
    /\ slugOnce' = ApplySlug(slugImpl, slugInput)
    /\ slugPc' = "once"
    /\ UNCHANGED <<slugImpl, slugInput, slugTwice, notSlug>>

SlugifyTwice ==
    /\ slugPc = "once"
    /\ slugTwice' = ApplySlug(slugImpl, slugOnce)
    /\ slugPc' = "twice"
    /\ UNCHANGED <<slugImpl, slugInput, slugOnce, notSlug>>

NextSlug == SlugifyOnce \/ SlugifyTwice

\* C10: slug normalization is idempotent: slugify(slugify(s)) = slugify(s)
\* for both Crawler._slugify and text_import.slugify, also for inputs longer
\* than the maximum length.
C10_SlugIdempotent == slugPc = "twice" => slugTwice = slugOnce

\* An input longer than the maximum whose truncation ends in a hyphen that
\* the trailing trim removes, slugified twice.
C10_Witness ==
    /\ slugPc = "twice"
    /\ Len(slugInput) > MAX_SLUG_LENGTH
    /\ Len(slugOnce) < MAX_SLUG_LENGTH
    /\ Len(Strip(SubInvalidRuns(Lower(slugInput)), {"-"})) > MAX_SLUG_LENGTH

-----------------------------------------------------------------------------
(* Markup inference: category rules and location extraction *)

LOCATION_FIELDS == {"addressLine1", "addressLine2", "city", "region", "postalCode", "country"}

\* Keys a mapping of the model can hold: the fixed address fields and one
\* key outside them (a regex group or selector key that is no address field).
LocKeys == LOCATION_FIELDS \cup {"phone"}

\* A dict over LocKeys: None marks a key that is not in the dict.
EmptyMap == [k \in LocKeys |-> None]
\* Python None where a dict is expected, and re's "no match".
NoLocation == [k \in LocKeys |-> NonStr]
NoMatch == [k \in LocKeys |-> NonStr]

\* Patterns re.compile accepts; every other pattern string raises re.error.
ValidPatterns == {<<"p">>, <<"q">>}

\* Crawler._normalize_string
_normalize_string(value) ==
    IF IsStr(value)
    THEN LET stripped == Strip(value, WhitespaceChars)
         IN  IF stripped = <<>> THEN None ELSE stripped
    ELSE None

\* isinstance(value, str) and value.strip()
NonBlankStr(value) == IsStr(value) /\ Strip(value, WhitespaceChars) # <<>>

\* Crawler._compile_regex: the compiled pattern, or None when re.compile raises.
_compile_regex(pattern) == IF pattern \in ValidPatterns THEN pattern ELSE None

\* Crawler._prepare_category_rules on one entry: the resolved rule, or the
\* empty sequence when the entry is skipped.
PrepareCategoryRule(entry) ==
    LET slug == _slugify(entry.slug)
        has_condition ==
            \E value \in {entry.selector, entry.text, entry.pattern} : NonBlankStr(value)
        compiled_pattern ==
            IF NonBlankStr(entry.pattern) THEN _compile_regex(entry.pattern) ELSE None
        trimmed_selector ==
            IF NonBlankStr(entry.selector) THEN Strip(entry.selector, WhitespaceChars) ELSE None
        lowered_text ==
            IF NonBlankStr(entry.text) THEN Strip(Lower(entry.text), WhitespaceChars) ELSE None
    IN  IF slug = <<>> THEN <<>>
        ELSE IF ~has_condition THEN <<>>
        ELSE IF ~(Truthy(trimmed_selector) \/ Truthy(lowered_text) \/ compiled_pattern # None)
             THEN <<>>
        ELSE << [slug |-> slug, selector |-> trimmed_selector,
                 text |-> lowered_text, pattern |-> compiled_pattern] >>

RECURSIVE _prepare_category_rules(_)
_prepare_category_rules(config) ==
    IF config = <<>> THEN <<>>
    ELSE PrepareCategoryRule(Head(config)) \o _prepare_category_rules(Tail(config))

\* One pass of the loop body of _match_category_rules: TRUE when no
\* `continue` is taken for the rule.
RulePasses(element, rule) ==
    /\ ~(Truthy(rule.selector) /\ rule.selector \notin element.nodes)
    /\ ~(Truthy(rule.text) /\ rule.text \notin element.has_text)
    /\ ~(rule.pattern # None /\ element.searches[rule.pattern] = NoMatch)

InSeq(x, s) == \E i \in 1..Len(s) : s[i] = x

\* The loop of _match_category_rules with the `slug not in matches` test
\* left out.
RECURSIVE MatchLoopNoDedupe(_, _, _)
MatchLoopNoDedupe(element, rules, matches) ==
    IF rules = <<>> THEN matches
    ELSE LET rule == Head(rules)
         IN  IF RulePasses(element, rule)
             THEN MatchLoopNoDedupe(element, Tail(rules), Append(matches, rule.slug))
             ELSE MatchLoopNoDedupe(element, Tail(rules), matches)

RECURSIVE MatchLoop(_, _, _)
MatchLoop(element, rules, matches) ==
    IF rules = <<>> THEN matches
    ELSE LET rule == Head(rules)
         IN  IF RulePasses(element, rule) /\ ~InSeq(rule.slug, matches)
             THEN MatchLoop(element, Tail(rules), Append(matches, rule.slug))
             ELSE MatchLoop(element, Tail(rules), matches)

\* Crawler._match_category_rules
_match_category_rules(element, rules) == MatchLoop(element, rules, <<>>)

\* Crawler._prepare_address_selectors: config is a dict over LocKeys.
_prepare_address_selectors(config) ==
    [k \in LocKeys |->
        IF k \in LOCATION_FIELDS /\ NonBlankStr(config[k])
        THEN Strip(config[k], WhitespaceChars)
        ELSE None]

\* Crawler._prepare_address_patterns: config is a list of pattern strings.
RECURSIVE _prepare_address_patterns(_)
_prepare_address_patterns(config) ==
    IF config = <<>> THEN <<>>
    ELSE LET pattern_value == Head(config)
             compiled == IF NonBlankStr(pattern_value)
                         THEN _compile_regex(pattern_value) ELSE None
         IN  (IF compiled # None THEN <<compiled>> ELSE <<>>)
             \o _prepare_address_patterns(Tail(config))

\* Crawler._normalize_location
_normalize_location(value) ==
    IF value = NoLocation THEN NoLocation
    ELSE LET normalized ==
                 [k \in LocKeys |->
                     IF k \in LOCATION_FIELDS /\ value[k] # None
                     THEN _normalize_string(value[k])
                     ELSE None]
         IN  IF normalized = EmptyMap THEN NoLocation ELSE normalized

\* The selector loop of _extract_location_from_element.
SelectorFields(element, selectors) ==
    [k \in LocKeys |->
        IF selectors[k] # None /\ selectors[k] \in element.nodes
           /\ element.node_text[selectors[k]] # <<>>
        THEN element.node_text[selectors[k]]
        ELSE None]

\* The capture loop for one match, with the `field not in extracted` test
\* left out.
ApplyCapturesOverwrite(extracted, captures) ==
    [k \in LocKeys |->
        IF k \in LOCATION_FIELDS /\ Truthy(captures[k])
        THEN Strip(captures[k], WhitespaceChars)
        ELSE extracted[k]]

\* The capture loop for one match: `for field in LOCATION_FIELDS`.
ApplyCaptures(extracted, captures) ==
    [k \in LocKeys |->
        IF k \in LOCATION_FIELDS /\ Truthy(captures[k]) /\ extracted[k] = None
        THEN Strip(captures[k], WhitespaceChars)
        ELSE extracted[k]]

RECURSIVE PatternLoop(_, _, _)
PatternLoop(element, patterns, extracted) ==
    IF patterns = <<>> THEN extracted
    ELSE LET match == element.searches[Head(patterns)]
         IN  IF match = NoMatch
             THEN PatternLoop(element, Tail(patterns), extracted)
             ELSE PatternLoop(element, Tail(patterns), ApplyCaptures(extracted, match))

\* Crawler._gather_listing_text is empty exactly when every part is.
ListingTextEmpty(element, title, snippet, link_text) ==
    title = <<>> /\ snippet = <<>> /\ link_text = <<>> /\ element.text = <<>>

\* Crawler._extract_location_from_element
_extract_location_from_element(element, selectors, patterns, text_empty) ==
    IF selectors = EmptyMap /\ patterns = <<>> THEN NoLocation
    ELSE LET fromSelectors == SelectorFields(element, selectors)
             extracted == IF ~text_empty /\ patterns # <<>>
                          THEN PatternLoop(element, patterns, fromSelectors)
                          ELSE fromSelectors
         IN  _normalize_location(extracted)

FieldNames == {"title", "sourceUrl", "categorySlug", "sourceName", "summary", "description"}
NoFields == [k \in FieldNames |-> None]

\* A test that drops every candidate without a title, whatever its link.
DroppedWithoutTitle(title, url) == title = <<>>

\* `if not title and not url: continue`
Dropped(title, url) == title = <<>> /\ url = <<>>

\* The body of the element loop of parse_listings: the listing of one
\* element, or the empty sequence when the element is dropped.  Hrefs of
\* the model are absolute or empty, which _normalize_url returns unchanged.
ParseElement(element, target, location, keyword) ==
    LET title == element.title
        url == Strip(element.href, WhitespaceChars)
        snippet == element.snippet
        link_text == IF element.link_text # <<>> THEN element.link_text ELSE title
        text_empty == ListingTextEmpty(element, title, snippet, link_text)
        loc == _extract_location_from_element(
                   element,
                   _prepare_address_selectors(target.address_selectors),
                   _prepare_address_patterns(target.address_patterns),
                   text_empty)
        categories == _match_category_rules(
                          element, _prepare_category_rules(target.category_rules))
    IN  IF Dropped(title, url) THEN <<>>
        ELSE << [title |-> title, url |-> url, snippet |-> snippet,
                 extras |-> [location |-> location, keyword |-> keyword,
                             link_text |-> link_text],
                 fields |-> NoFields,
                 categories |-> categories,
                 category_slug |-> IF categories # <<>> THEN categories[1] ELSE None,
                 location |-> loc] >>

\* Crawler.parse_listings: html is the sequence of elements the listing
\* selector finds, in document order.
RECURSIVE parse_listings(_, _, _, _)
parse_listings(html, target, location, keyword) ==
    IF html = <<>> THEN <<>>
    ELSE ParseElement(Head(html), target, location, keyword)
         \o parse_listings(Tail(html), target, location, keyword)

-----------------------------------------------------------------------------
(* Post-processing: ListingPostProcessor *)

DEFAULT_SUMMARY_MAX_CHARS == 280
DEFAULT_DESCRIPTION_MAX_CHARS == 1200

\* The characters of _SEPARATOR_PATTERN that the model's alphabet holds.
SeparatorChars == {"|", "/", "-"}

\* ListingPostProcessor._collapse_whitespace: _WHITESPACE_PATTERN.sub(" ", value).strip()
_collapse_whitespace(value) ==
    LET marked == [i \in 1..Len(value) |->
                     IF value[i] \notin WhitespaceChars THEN value[i]
                     ELSE IF i = 1 \/ value[i - 1] \notin WhitespaceChars THEN " "
                     ELSE "<dropped>"]
        Kept(c) == c # "<dropped>"
    IN  Strip(SelectSeq(marked, Kept), WhitespaceChars)

\* _SEPARATOR_PATTERN.sub(" \1 ", collapsed): every separator loses the
\* whitespace around it and gets one space on each side.
SpaceSeparators(collapsed) ==
    LET n == Len(collapsed)
        Piece(i) ==
            IF collapsed[i] \in SeparatorChars THEN <<" ", collapsed[i], " ">>
            ELSE IF /\ collapsed[i] \in WhitespaceChars
                    /\ \/ (i < n /\ collapsed[i + 1] \in SeparatorChars)
                       \/ (i > 1 /\ collapsed[i - 1] \in SeparatorChars)
                 THEN <<>>
                 ELSE <<collapsed[i]>>
    IN  ConcatAll([i \in 1..n |-> Piece(i)])

\* ListingPostProcessor._normalize_title
_normalize_title(value) ==
    _collapse_whitespace(SpaceSeparators(_collapse_whitespace(value)))

\* A cut at the limit that leaves the whitespace it ends in.
TruncateNoTrim(value, limit) ==
    IF limit = 0 \/ Len(value) <= limit THEN value ELSE Prefix(value, limit)

\* ListingPostProcessor._truncate; limit 0 stands for a falsy limit.
_truncate(value, limit) ==
    IF limit = 0 \/ Len(value) <= limit
    THEN value
    ELSE RStrip(Prefix(value, limit), WhitespaceChars)

\* ListingPostProcessor._coerce_positive_int; 0 stands for None.
_coerce_positive_int(value) ==
    IF value.kind \in {"int", "float"} /\ value.v > 0 THEN value.v ELSE 0

\* A generation rule of the post-processing config (the value under
\* "summary" or "description").  kind is "absent" (no such key), "dict" or
\* "other" (a value that is no mapping); each key of the mapping is
\* "absent" or names the sort of value it holds: prompt_template "ok" is a
\* string that renders, "bad" a string whose rendering fails.
NoRule ==
    [kind |-> "absent", always |-> "absent", prompt_template |-> "absent",
     provider |-> "absent", model |-> "absent"]

\* The post-processing config, a mapping with the keys below.
NoPostProcessing ==
    [kind |-> "absent", normalize_titles |-> "absent",
     summary_max_chars |-> AbsentNum, description_max_chars |-> AbsentNum,
     summary |-> NoRule, description |-> NoRule]

EmptyRule == [NoRule EXCEPT !.kind = "dict"]
EmptyPostProcessing == [NoPostProcessing EXCEPT !.kind = "dict"]

\* bool(mapping) of a rule: a dict with at least one key
RuleTruthy(rule) == rule.kind = "dict" /\ rule # EmptyRule

\* prompt_template, provider and model are all strings
RuleValid(rule) ==
    /\ rule.prompt_template \in {"ok", "bad"}
    /\ rule.provider = "str"
    /\ rule.model = "str"

\* ListingPostProcessor._should_generate
_should_generate(current_value, config) ==
    IF config.always = "true" THEN TRUE
    ELSE ~IsStr(current_value) \/ Strip(current_value, WhitespaceChars) = <<>>

\* `a or b` on optional strings
Or(a, b) == IF Truthy(a) THEN a ELSE b

\* A _generate_field that, without a client, leaves the field without a
\* value instead of raising.
GenerateFieldSkipping(config, llm, response, limit) ==
    IF llm = "none" THEN [ok |-> TRUE, value |-> None]
    ELSE IF ~RuleValid(config) \/ config.prompt_template # "ok" \/ llm = "raises"
         THEN [ok |-> FALSE, value |-> None]
         ELSE [ok |-> TRUE, value |-> _truncate(_collapse_whitespace(response), limit)]

\* ListingPostProcessor._generate_field: llm is the client ("none" when no
\* client was supplied, "raises" when the call fails) and response its
\* answer.  The result is [ok, value]; ok = FALSE stands for the exception.
_generate_field(config, llm, response, limit) ==
    IF llm = "none" THEN [ok |-> FALSE, value |-> None]
    ELSE IF ~RuleValid(config) THEN [ok |-> FALSE, value |-> None]
    ELSE IF config.prompt_template # "ok" THEN [ok |-> FALSE, value |-> None]
    ELSE IF llm = "raises" THEN [ok |-> FALSE, value |-> None]
    ELSE [ok |-> TRUE, value |-> _truncate(_collapse_whitespace(response), limit)]

\* The title statement of process: normalized["title"]
ProcessTitle(payload, context, config_map) ==
    LET title_value == Or(payload["title"], context.title)
    IN  IF IsStr(title_value)
        THEN [payload EXCEPT !["title"] =
                 IF config_map.normalize_titles \in {"absent", "true"}
                 THEN _normalize_title(title_value)
                 ELSE _collapse_whitespace(title_value)]
        ELSE payload

\* The value process stores for a field it generates: done is [ok, payload,
\* calls] so far, generated the result of _generate_field.
StoreGenerated(done, field_name, config, generated, llm) ==
    [ok |-> generated.ok,
     payload |-> [done.payload EXCEPT ![field_name] = generated.value],
     calls |-> IF generated.ok \/ (llm = "raises" /\ RuleValid(config)
                                   /\ config.prompt_template = "ok")
               THEN Append(done.calls, field_name) ELSE done.calls]

\* The statements of process for "summary" or "description": generate the
\* field, or keep the collapsed and truncated value there is.  kept is the
\* value to keep (existing_summary or context.snippet; existing_description).
ProcessField(done, field_name, config, existing, kept, limit, llm, response) ==
    IF ~done.ok THEN done
    ELSE IF RuleTruthy(config) /\ _should_generate(existing, config)
         THEN StoreGenerated(done, field_name, config,
                             _generate_field(config, llm, response, limit), llm)
         ELSE IF IsStr(kept)
              THEN [done EXCEPT !.payload[field_name] =
                       _truncate(_collapse_whitespace(kept), limit)]
              ELSE done

\* self._coerce_positive_int(config_map.get(key)) or the processor's default
ProcessLimit(value, default) ==
    IF _coerce_positive_int(value) # 0 THEN _coerce_positive_int(value) ELSE default

\* self._coerce_mapping(config_map.get(key)) of a generation rule
RuleMapping(rule) == IF rule.kind = "dict" THEN rule ELSE NoRule

ProcessSummary(done, context, config_map, llm, response) ==
    ProcessField(done, "summary", RuleMapping(config_map.summary),
                 Or(done.payload["summary"], context.summary),
                 Or(Or(done.payload["summary"], context.summary), context.snippet),
                 ProcessLimit(config_map.summary_max_chars, DEFAULT_SUMMARY_MAX_CHARS),
                 llm, response)

ProcessDescription(done, context, config_map, llm, response) ==
    ProcessField(done, "description", RuleMapping(config_map.description),
                 Or(done.payload["description"], context.description),
                 Or(done.payload["description"], context.description),
                 ProcessLimit(config_map.description_max_chars,
                              DEFAULT_DESCRIPTION_MAX_CHARS),
                 llm, response)

\* dict(config or {}) if isinstance(config, dict) else {}
ConfigMap(config_arg) ==
    IF config_arg.kind = "dict" THEN config_arg ELSE EmptyPostProcessing

\* ListingPostProcessor.process: payload holds the string-valued keys of the
\* payload dict (None for a key that is missing), context the
\* PostProcessingContext.  The result is [ok, payload, calls]; ok = FALSE is
\* an exception of _generate_field, calls the sequence of field names the
\* client was invoked for.
process(payload, context, config_arg, llm, response) ==
    ProcessDescription(
        ProcessSummary(
            [ok |-> TRUE,
             payload |-> ProcessTitle(payload, context, ConfigMap(config_arg)),
             calls |-> <<>>],
            context, ConfigMap(config_arg), llm, response),
        context, ConfigMap(config_arg), llm, response)

-----------------------------------------------------------------------------
(* Field resolution and the classifier fallback *)

\* FieldGenerator._resolve_scrape_field for the attribute paths the model
\* knows: the listing context first, then the full context.  A value that
\* is no string (the categories list, a location dict) is NonStr.
_resolve_scrape_field(field_name, config, listing, target, batch) ==
    LET attribute == IF config.attribute # "" THEN config.attribute ELSE field_name
        inListing ==
            CASE attribute = "title" -> listing.title
              [] attribute = "url" -> listing.url
              [] attribute = "snippet" -> listing.snippet
              [] attribute = "category_slug" -> listing.category_slug
              [] attribute = "categories" -> NonStr
              [] attribute = "extras" -> NonStr
              [] attribute = "location" ->
                    IF listing.location = NoLocation THEN None ELSE NonStr
              [] attribute = "keyword" -> listing.extras.keyword
              [] attribute = "link_text" -> listing.extras.link_text
              [] attribute = "extras.location" -> listing.extras.location
              [] OTHER -> None
        inContext ==
            CASE attribute = "category" -> target.category
              [] attribute = "location" -> batch.location
              [] attribute = "keyword" -> batch.keyword
              [] attribute = "listing.title" -> listing.title
              [] attribute = "listing.url" -> listing.url
              [] OTHER -> None
    IN  IF inListing # None THEN inListing ELSE inContext

\* _generate_ai_field without the test for the client: a missing client
\* leaves the field without a value.
GenerateAiFieldSkipping(config, llm, response) ==
    IF llm = "none" THEN [ok |-> TRUE, value |-> None]
    ELSE IF ~config.complete \/ ~config.renders \/ llm = "raises"
         THEN [ok |-> FALSE, value |-> None]
         ELSE [ok |-> TRUE, value |-> response]

\* FieldGenerator._generate_ai_field: [ok, value]; ok = FALSE is the
\* RuntimeError of a missing client, the ValueError of an incomplete rule or
\* of a template that does not render, or the client's own failure.
_generate_ai_field(config, llm, response) ==
    IF llm = "none" THEN [ok |-> FALSE, value |-> None]
    ELSE IF ~config.complete THEN [ok |-> FALSE, value |-> None]
    ELSE IF ~config.renders THEN [ok |-> FALSE, value |-> None]
    ELSE IF llm = "raises" THEN [ok |-> FALSE, value |-> None]
    ELSE [ok |-> TRUE, value |-> response]

\* (config.get("source") or "scrape").lower()
FieldSource(config) == IF config.source = "" THEN "scrape" ELSE config.source

\* The loop of FieldGenerator.generate over the field rules, in their order.
RECURSIVE GenerateLoop(_, _, _, _, _, _, _)
GenerateLoop(field_configs, generated, listing, target, batch, llm, response) ==
    IF field_configs = <<>> THEN [ok |-> TRUE, fields |-> generated]
    ELSE LET config == Head(field_configs)
             source == FieldSource(config)
         IN  IF source = "scrape"
             THEN GenerateLoop(
                      Tail(field_configs),
                      [generated EXCEPT ![config.name] =
                          _resolve_scrape_field(config.name, config, listing, target, batch)],
                      listing, target, batch, llm, response)
             ELSE IF source = "ai"
             THEN LET result == _generate_ai_field(config, llm, response)
                  IN  IF result.ok
                      THEN GenerateLoop(
                               Tail(field_configs),
                               [generated EXCEPT ![config.name] = result.value],
                               listing, target, batch, llm, response)
                      ELSE [ok |-> FALSE, fields |-> generated]
             ELSE [ok |-> FALSE, fields |-> generated]

\* FieldGenerator.generate
generate(listing, target, batch, llm, response) ==
    IF target.fields = <<>> THEN [ok |-> TRUE, fields |-> NoFields]
    ELSE GenerateLoop(target.fields, NoFields, listing, target, batch, llm, response)

\* Crawler._populate_fields: [ok, listings]
RECURSIVE PopulateLoop(_, _, _, _, _)
PopulateLoop(listings, target, batch, llm, response) ==
    IF listings = <<>> THEN [ok |-> TRUE, listings |-> <<>>]
    ELSE LET g == generate(Head(listings), target, batch, llm, response)
             rest == PopulateLoop(Tail(listings), target, batch, llm, response)
         IN  IF ~g.ok THEN [ok |-> FALSE, listings |-> listings]
             ELSE IF ~rest.ok THEN [ok |-> FALSE, listings |-> listings]
             ELSE [ok |-> TRUE,
                   listings |-> <<[Head(listings) EXCEPT !.fields = g.fields]>>
                                \o rest.listings]

_populate_fields(listings, target, batch, llm, response) ==
    IF listings = <<>> THEN [ok |-> TRUE, listings |-> listings]
    ELSE PopulateLoop(listings, target, batch, llm, response)

\* A resolution that slugifies the cleaned segment before it looks at the
\* choices.
ResolveSegmentFirst(response, choices) ==
    LET normalized == _normalize_string(response)
        cleaned == Strip(Before(Before(Before(normalized, {"\n"}), {"|"}), {","}),
                         WhitespaceChars)
        usable == SelectSeq(choices, LAMBDA choice : _slugify(choice) # <<>>)
        partial == {i \in 1..Len(usable) :
                       Contains(Lower(normalized), _slugify(usable[i]))}
    IN  IF normalized = None THEN None
        ELSE IF _slugify(cleaned) # <<>> THEN _slugify(cleaned)
        ELSE IF partial # {} THEN _slugify(usable[Min(partial)])
        ELSE None

\* Crawler._resolve_classifier_slug: the slug, or None
_resolve_classifier_slug(response, choices) ==
    LET normalized == _normalize_string(response)
        first_line == Before(normalized, {"\n"})
        cleaned == Strip(Before(Before(first_line, {"|"}), {","}), WhitespaceChars)
        lowered_full == Lower(normalized)
        lowered_cleaned == Lower(cleaned)
        usable == SelectSeq(choices, LAMBDA choice : _slugify(choice) # <<>>)
        exact == {i \in 1..Len(usable) :
                     \/ lowered_cleaned = _slugify(usable[i])
                     \/ lowered_cleaned = Lower(usable[i])}
        partial == {i \in 1..Len(usable) :
                     \/ Contains(lowered_cleaned, Lower(usable[i]))
                     \/ Contains(lowered_cleaned, _slugify(usable[i]))
                     \/ Contains(lowered_full, _slugify(usable[i]))}
        slug == _slugify(cleaned)
    IN  IF normalized = None THEN None
        ELSE IF exact # {} THEN _slugify(usable[Min(exact)])
        ELSE IF partial # {} THEN _slugify(usable[Min(partial)])
        ELSE IF slug # <<>> THEN slug ELSE None

\* classifier.get("choices") filtered to the non-blank strings
ClassifierChoices(classifier) ==
    SelectSeq(classifier.choices, LAMBDA choice : NonBlankStr(choice))

\* Crawler._classify_listing_category: [ok, slug]
_classify_listing_category(classifier, llm, response) ==
    IF ~classifier.complete THEN [ok |-> FALSE, slug |-> None]
    ELSE IF ~classifier.renders THEN [ok |-> FALSE, slug |-> None]
    ELSE IF llm = "raises" THEN [ok |-> FALSE, slug |-> None]
    ELSE [ok |-> TRUE,
          slug |-> _resolve_classifier_slug(response, ClassifierChoices(classifier))]

\* A classification that also writes the slug into the generated fields.
ClassifiedIntoFields(listing, slug) ==
    IF Truthy(slug)
    THEN [listing EXCEPT
             !.category_slug = slug,
             !.fields["categorySlug"] = slug,
             !.categories = IF InSeq(slug, listing.categories)
                            THEN listing.categories
                            ELSE Append(listing.categories, slug)]
    ELSE listing

\* listing.category_slug = slug and the append to listing.categories
Classified(listing, slug) ==
    IF Truthy(slug)
    THEN [listing EXCEPT
             !.category_slug = slug,
             !.categories = IF InSeq(slug, listing.categories)
                            THEN listing.categories
                            ELSE Append(listing.categories, slug)]
    ELSE listing

\* The client is reached by _classify_listing_category and raises
ClientRaised(classifier, llm) == classifier.complete /\ classifier.renders /\ llm = "raises"

\* A loop that classifies every listing, also those that have a primary
\* slug.
RECURSIVE ClassifyLoopAll(_, _, _, _)
ClassifyLoopAll(listings, classifier, llm, response) ==
    IF listings = <<>> THEN [ok |-> TRUE, listings |-> <<>>, calls |-> 0, invoked |-> <<>>]
    ELSE LET listing == Head(listings)
             rest == ClassifyLoopAll(Tail(listings), classifier, llm, response)
             c == _classify_listing_category(classifier, llm, response)
         IN  IF ~c.ok
             THEN [ok |-> FALSE, listings |-> listings, calls |-> 0,
                   invoked |-> <<IF ClientRaised(classifier, llm) THEN 1 ELSE 0>>]
             ELSE [rest EXCEPT !.listings = <<Classified(listing, c.slug)>> \o rest.listings,
                               !.calls = rest.calls + 1,
                               !.invoked = <<1>> \o rest.invoked]

\* The loop of _assign_classifier_categories over the listings; listings
\* that have a primary slug are not pending and pass through.  invoked
\* counts, listing by listing, the calls of the client, up to the listing at
\* which the loop raised.
RECURSIVE ClassifyLoop(_, _, _, _)
ClassifyLoop(listings, classifier, llm, response) ==
    IF listings = <<>> THEN [ok |-> TRUE, listings |-> <<>>, calls |-> 0, invoked |-> <<>>]
    ELSE LET listing == Head(listings)
             rest == ClassifyLoop(Tail(listings), classifier, llm, response)
             c == _classify_listing_category(classifier, llm, response)
         IN  IF Truthy(listing.category_slug)
             THEN [rest EXCEPT !.listings = <<listing>> \o rest.listings,
                               !.invoked = <<0>> \o rest.invoked]
             ELSE IF ~c.ok
                  THEN [ok |-> FALSE, listings |-> listings, calls |-> 0,
                        invoked |-> <<IF ClientRaised(classifier, llm) THEN 1 ELSE 0>>]
                  ELSE [rest EXCEPT !.listings = <<Classified(listing, c.slug)>> \o rest.listings,
                                    !.calls = rest.calls + 1,
                                    !.invoked = <<1>> \o rest.invoked]

\* Crawler._assign_classifier_categories: [ok, listings, calls, invoked]
_assign_classifier_categories(listings, target, llm, response) ==
    LET classifier == target.category_classifier
        pending == SelectSeq(listings, LAMBDA listing : ~Truthy(listing.category_slug))
        untouched == [ok |-> TRUE, listings |-> listings, calls |-> 0,
                      invoked |-> [i \in 1..Len(listings) |-> 0]]
    IN  IF ~classifier.dict THEN untouched
        ELSE IF pending = <<>> THEN untouched
        ELSE IF llm = "none" THEN [untouched EXCEPT !.ok = FALSE, !.invoked = <<>>]
        ELSE ClassifyLoop(listings, classifier, llm, response)

NoClassifier == [dict |-> FALSE, complete |-> FALSE, renders |-> FALSE, choices |-> <<>>]

-----------------------------------------------------------------------------
(* Dispatch: API targets, timeouts, location batches and payloads *)

DEFAULT_TIMEOUT == 15

\* Crawler._coerce_positive_timeout; 0 stands for None.
_coerce_positive_timeout(value) ==
    IF value.kind \in {"int", "float"} /\ value.v > 0 THEN value.v ELSE 0

\* An entry of the api_targets list; dict = FALSE is an entry that is no
\* mapping.
NoEntry ==
    [dict |-> TRUE, name |-> None, endpoint |-> None, token |-> None,
     api_token |-> None, bearer_token |-> None, timeout |-> AbsentNum]

\* entry.get("token") or entry.get("api_token") or entry.get("bearer_token")
EntryToken(entry) == Or(entry.token, Or(entry.api_token, entry.bearer_token))

APITarget(name, endpoint, token, timeout) ==
    [name |-> name, endpoint |-> endpoint, token |-> token, timeout |-> timeout]

\* A resolution that takes the default pair whenever it is complete and the
\* list only without it.
ResolveApiTargetsDefaultFirst(config) ==
    LET targets_config == config.api_targets
        Bad(entry) == ~entry.dict \/ ~Truthy(entry.endpoint) \/ ~Truthy(EntryToken(entry))
        FromEntry(entry) ==
            APITarget(Or(entry.name, entry.endpoint), entry.endpoint, EntryToken(entry),
                      _coerce_positive_timeout(entry.timeout))
    IN  IF Truthy(config.api_endpoint) /\ Truthy(config.api_token)
        THEN [ok |-> TRUE,
              targets |-> << APITarget(<<"d", "e", "f", "a", "u", "l", "t">>,
                                       config.api_endpoint, config.api_token,
                                       _coerce_positive_timeout(config.api_request_timeout)) >>]
        ELSE IF targets_config = <<>> \/ \E i \in 1..Len(targets_config) : Bad(targets_config[i])
             THEN [ok |-> FALSE, targets |-> <<>>]
             ELSE [ok |-> TRUE,
                   targets |-> [i \in 1..Len(targets_config) |-> FromEntry(targets_config[i])]]

\* Crawler._resolve_api_targets: [ok, targets]; ok = FALSE is the ValueError.
\* config.api_targets is the list, <<>> when the key is absent, empty or no
\* list.
_resolve_api_targets(config) ==
    LET targets_config == config.api_targets
        Bad(entry) == ~entry.dict \/ ~Truthy(entry.endpoint) \/ ~Truthy(EntryToken(entry))
        FromEntry(entry) ==
            APITarget(Or(entry.name, entry.endpoint), entry.endpoint, EntryToken(entry),
                      _coerce_positive_timeout(entry.timeout))
    IN  IF targets_config # <<>>
        THEN IF \E i \in 1..Len(targets_config) : Bad(targets_config[i])
             THEN [ok |-> FALSE, targets |-> <<>>]
             ELSE [ok |-> TRUE,
                   targets |-> [i \in 1..Len(targets_config) |-> FromEntry(targets_config[i])]]
        ELSE IF Truthy(config.api_endpoint) /\ Truthy(config.api_token)
             THEN [ok |-> TRUE,
                   targets |-> << APITarget(<<"d", "e", "f", "a", "u", "l", "t">>,
                                            config.api_endpoint, config.api_token,
                                            _coerce_positive_timeout(config.api_request_timeout)) >>]
             ELSE [ok |-> FALSE, targets |-> <<>>]

\* Crawler._resolve_api_timeout; api_target.timeout is the value
\* _resolve_api_targets stored (0 for None), and self.request_timeout is the
\* constructor's default.
_resolve_api_timeout(api_target, target_config, root_config) ==
    LET candidates == << api_target.timeout,
                         _coerce_positive_timeout(target_config.api_request_timeout),
                         _coerce_positive_timeout(root_config.api_request_timeout),
                         _coerce_positive_timeout(target_config.request_timeout),
                         _coerce_positive_timeout(root_config.request_timeout) >>
        positive == {i \in 1..Len(candidates) : candidates[i] # 0}
    IN  IF positive # {} THEN candidates[Min(positive)] ELSE DEFAULT_TIMEOUT

\* target.get("request_timeout", self.request_timeout) of fetch_listings: the
\* value under the key when there is one (0 for a value that is no number).
FetchTimeout(target) ==
    IF target.request_timeout.kind = "absent" THEN DEFAULT_TIMEOUT
    ELSE target.request_timeout.v

\* urllib.parse.quote_plus on the model's alphabet: a space becomes "+".
quote_plus(s) == [i \in 1..Len(s) |-> IF s[i] = " " THEN "+" ELSE s[i]]

\* Crawler._normalize_subdomain for a subdomain given without a scheme.
_normalize_subdomain(value) ==
    IF ~Truthy(value) THEN <<>> ELSE <<"https://">> \o Strip(value, {"/"})

\* Crawler.build_search_url with DEFAULT_SEARCH_TEMPLATE; with no subdomain
\* the url "/search?..." gets the scheme in front of its lstrip("/").
build_search_url(target, location, keyword) ==
    LET subdomain == _normalize_subdomain(target.subdomain)
        category == IF target.category = None THEN <<>> ELSE target.category
    IN  (IF subdomain = <<>> THEN <<"https://">> ELSE subdomain \o <<"/">>)
        \o <<"search?category=">> \o quote_plus(category)
        \o <<"&location=">> \o quote_plus(location)
        \o <<"&keyword=">> \o quote_plus(IF Truthy(keyword) THEN keyword ELSE <<>>)

\* _iter_location_batches with the two loops exchanged: keywords outside,
\* locations inside.
IterKeywordsOutside(target) ==
    LET keywords == IF target.keywords = <<>> THEN <<None>> ELSE target.keywords
        nl == Len(target.locations)
    IN  [i \in 1..(nl * Len(keywords)) |->
            LET keyword == keywords[((i - 1) \div nl) + 1]
                location == target.locations[((i - 1) % nl) + 1]
            IN  [location |-> location, keyword |-> keyword,
                 search_url |-> build_search_url(target, location, keyword)]]

\* Crawler._iter_location_batches: the batches of one target, locations
\* outside, keywords inside.
_iter_location_batches(target) ==
    LET keywords == IF target.keywords = <<>> THEN <<None>> ELSE target.keywords
        nk == Len(keywords)
    IN  [i \in 1..(Len(target.locations) * nk) |->
            LET location == target.locations[((i - 1) \div nk) + 1]
                keyword == keywords[((i - 1) % nk) + 1]
            IN  [location |-> location, keyword |-> keyword,
                 search_url |-> build_search_url(target, location, keyword)]]

\* A limit that keeps the last listings in place of the first.
ApplyLimitFromEnd(listings, limit) ==
    IF limit.kind = "int" /\ limit.v > 0 /\ Len(listings) > limit.v
    THEN SubSeq(listings, Len(listings) - limit.v + 1, Len(listings))
    ELSE listings

\* listings[:limit] when limit is a positive int
ApplyLimit(listings, limit) ==
    IF limit.kind = "int" /\ limit.v > 0 THEN Prefix(listings, limit.v) ELSE listings

\* Crawler._resolve_category_slug: [ok, slug]
_resolve_category_slug(target_config) ==
    LET slug_source ==
            Or(target_config.category_slug,
               Or(target_config.categorySlug, Or(target_config.category, <<>>)))
        slug == _slugify(slug_source)
    IN  [ok |-> slug # <<>>, slug |-> slug]

\* Crawler._resolve_source_name
_resolve_source_name(target_config) ==
    LET values == << _normalize_string(target_config.source_name),
                     _normalize_string(target_config.sourceName),
                     _normalize_string(target_config.subdomain),
                     _normalize_string(target_config.category) >>
        found == {i \in 1..Len(values) : Truthy(values[i])}
    IN  IF found # {} THEN values[Min(found)] ELSE None

\* Crawler._merge_mappings on a generation rule
MergeRule(base, override) ==
    [k \in DOMAIN base |->
        IF k = "kind" THEN "dict"
        ELSE IF override[k] # "absent" THEN override[k] ELSE base[k]]

\* A merge in which a key of override replaces the key of base also when
\* both hold a mapping.
MergeMappingsShallow(base, override) ==
    [kind |-> "dict",
     normalize_titles |-> IF override.normalize_titles # "absent"
                          THEN override.normalize_titles ELSE base.normalize_titles,
     summary_max_chars |-> IF override.summary_max_chars.kind # "absent"
                           THEN override.summary_max_chars ELSE base.summary_max_chars,
     description_max_chars |-> IF override.description_max_chars.kind # "absent"
                               THEN override.description_max_chars
                               ELSE base.description_max_chars,
     summary |-> IF override.summary.kind # "absent" THEN override.summary ELSE base.summary,
     description |-> IF override.description.kind # "absent"
                     THEN override.description ELSE base.description]

\* Crawler._merge_mappings on the post-processing config: a key of override
\* replaces the key of base, two mappings under one key are merged.
_merge_mappings(base, override) ==
    LET Number(k) == IF override[k].kind # "absent" THEN override[k] ELSE base[k]
        Nested(k) == IF override[k].kind = "absent" THEN base[k]
                     ELSE IF base[k].kind = "dict" /\ override[k].kind = "dict"
                          THEN MergeRule(base[k], override[k])
                          ELSE override[k]
    IN  [kind |-> "dict",
         normalize_titles |-> IF override.normalize_titles # "absent"
                              THEN override.normalize_titles ELSE base.normalize_titles,
         summary_max_chars |-> Number("summary_max_chars"),
         description_max_chars |-> Number("description_max_chars"),
         summary |-> Nested("summary"),
         description |-> Nested("description")]

\* Crawler._coerce_mapping: the mapping, or NoPostProcessing for None
_coerce_mapping(value) == IF value.kind = "dict" THEN value ELSE NoPostProcessing

\* Crawler._resolve_post_processing_config
_resolve_post_processing_config(root_config, target_config) ==
    LET root_map == _coerce_mapping(root_config.post_processing)
        target_map == _coerce_mapping(target_config.post_processing)
        NonEmpty(m) == m.kind = "dict" /\ m # EmptyPostProcessing
    IN  IF NonEmpty(root_map) /\ NonEmpty(target_map)
        THEN _merge_mappings(root_map, target_map)
        ELSE IF NonEmpty(target_map) THEN target_map ELSE root_map

\* What _build_listing_payload returns for a listing without a title.
NoPayload == [present |-> FALSE, fields |-> NoFields, location |-> NoLocation]

\* The end of _build_listing_payload: the payload the post-processor
\* returned, with the location, or its exception.
ProcessedPayload(processed, updated) ==
    IF ~processed.ok
    THEN [ok |-> FALSE, payload |-> NoPayload, listing |-> updated,
          calls |-> processed.calls]
    ELSE [ok |-> TRUE,
          payload |-> [present |-> TRUE, fields |-> processed.payload,
                       location |-> _normalize_location(updated.location)],
          listing |-> updated, calls |-> processed.calls]

\* A payload construction that appends the category without the
\* `not in listing.categories` test.
WithCategoryAppended(listing, normalized_category) ==
    [listing EXCEPT
        !.category_slug = normalized_category,
        !.categories = Append(@, normalized_category)]

\* listing.category_slug and listing.categories as _build_listing_payload
\* leaves them
WithCategory(listing, normalized_category) ==
    [listing EXCEPT
        !.category_slug = normalized_category,
        !.categories = IF InSeq(normalized_category, @)
                       THEN @ ELSE Append(@, normalized_category)]

\* PostProcessingContext(...) of _build_listing_payload, the attributes
\* process reads
Context(listing, payload) ==
    [title |-> listing.title, snippet |-> listing.snippet,
     summary |-> payload["summary"], description |-> payload["description"]]

\* A category source that prefers the inferred slug to the declared one.
CategorySourceInferredFirst(listing, default_category_slug) ==
    Or(listing.category_slug, Or(listing.fields["categorySlug"], default_category_slug))

\* payload.get("categorySlug") or listing.category_slug or default_category_slug
CategorySource(listing, default_category_slug) ==
    Or(listing.fields["categorySlug"], Or(listing.category_slug, default_category_slug))

\* _build_listing_payload from the values of its first statements
PayloadFrom(listing, title, source_url, normalized_category, source_name, post_processing_config, llm, response) ==
    IF ~Truthy(title)
    THEN [ok |-> TRUE, payload |-> NoPayload, listing |-> listing, calls |-> <<>>]
    ELSE IF normalized_category = <<>>
    THEN [ok |-> FALSE, payload |-> NoPayload, listing |-> listing, calls |-> <<>>]
    ELSE ProcessedPayload(
             process([listing.fields EXCEPT
                         !["title"] = title,
                         !["sourceUrl"] = IF Truthy(source_url) THEN source_url ELSE @,
                         !["categorySlug"] = normalized_category,
                         !["sourceName"] = IF Truthy(source_name) THEN source_name ELSE @],
                     Context(listing, listing.fields),
                     post_processing_config, llm, response),
             WithCategory(listing, normalized_category))

\* Crawler._build_listing_payload: [ok, payload, listing, calls].  ok = FALSE
\* is the ValueError of an empty category slug or an error of the
\* post-processor; listing is the listing with the category the payload got;
\* calls are the post-processor's calls of the client.
_build_listing_payload(listing, target_config, root_config, default_category_slug, llm, response) ==
    PayloadFrom(
        listing,
        Or(_normalize_string(listing.fields["title"]), _normalize_string(listing.title)),
        Or(_normalize_string(listing.fields["sourceUrl"]), _normalize_string(listing.url)),
        _slugify(CategorySource(listing, default_category_slug)),
        Or(_normalize_string(listing.fields["sourceName"]),
           _resolve_source_name(target_config)),
        _resolve_post_processing_config(root_config, target_config),
        llm, response)

\* A loop over the listings that ends at the first listing without a
\* payload.
PayloadTurnEndsAtMissing(built, listings, rest) ==
    IF ~built.ok
    THEN [ok |-> FALSE, payloads |-> <<>>,
          listings |-> <<built.listing>> \o Tail(listings), calls |-> built.calls]
    ELSE [ok |-> rest.ok,
          payloads |-> IF built.payload.present
                       THEN <<built.payload>> \o rest.payloads ELSE <<>>,
          listings |-> <<built.listing>> \o rest.listings,
          calls |-> built.calls \o rest.calls]

\* One turn of the loop of _build_ingestion_payloads: built is the result
\* for the first listing, rest the result of the turns after it.
PayloadTurn(built, listings, rest) ==
    IF ~built.ok
    THEN [ok |-> FALSE, payloads |-> <<>>,
          listings |-> <<built.listing>> \o Tail(listings), calls |-> built.calls]
    ELSE [ok |-> rest.ok,
          payloads |-> (IF built.payload.present THEN <<built.payload>> ELSE <<>>)
                       \o rest.payloads,
          listings |-> <<built.listing>> \o rest.listings,
          calls |-> built.calls \o rest.calls]

\* The loop of _build_ingestion_payloads over the listings of the batch.
RECURSIVE PayloadLoop(_, _, _, _, _, _)
PayloadLoop(listings, target_config, root_config, category_slug, llm, response) ==
    IF listings = <<>>
    THEN [ok |-> TRUE, payloads |-> <<>>, listings |-> <<>>, calls |-> <<>>]
    ELSE PayloadTurn(
             _build_listing_payload(Head(listings), target_config, root_config,
                                    category_slug, llm, response),
             listings,
             PayloadLoop(Tail(listings), target_config, root_config,
                         category_slug, llm, response))

\* Crawler._build_ingestion_payloads: [ok, payloads, listings, calls]
_build_ingestion_payloads(listings, target_config, root_config, llm, response) ==
    IF ~_resolve_category_slug(target_config).ok
    THEN [ok |-> FALSE, payloads |-> <<>>, listings |-> listings, calls |-> <<>>]
    ELSE PayloadLoop(listings, target_config, root_config,
                     _resolve_category_slug(target_config).slug, llm, response)

\* raise_for_status that returns whatever the status is.
RaiseForStatusIgnored(response_ok) == TRUE

\* requests' Response.raise_for_status: TRUE when it returns, FALSE when it
\* raises HTTPError.
raise_for_status(response_ok) == response_ok

-----------------------------------------------------------------------------
(* SpecParse: parse_listings over bounded pages and rule configurations *)

MaxRules == 3
MaxPatterns == 2
MaxElems == 1

RECURSIVE SeqsUpTo(_, _)
SeqsUpTo(S, n) ==
    IF n = 0 THEN {<<>>}
    ELSE LET shorter == SeqsUpTo(S, n - 1)
         IN  shorter \cup {Append(s, x) : s \in shorter, x \in S}

\* A crawl target with nothing configured but its category and one location.
TargetBase ==
    [category |-> <<"A", "b">>,
     locations |-> << <<"L">> >>,
     keywords |-> <<>>,
     listings_per_location |-> AbsentNum,
     fields |-> <<>>,
     subdomain |-> None,
     category_slug |-> None,
     categorySlug |-> None,
     source_name |-> None,
     sourceName |-> None,
     post_processing |-> NoPostProcessing,
     category_rules |-> <<>>,
     address_selectors |-> EmptyMap,
     address_patterns |-> <<>>,
     category_classifier |-> NoClassifier,
     api_request_timeout |-> AbsentNum,
     request_timeout |-> AbsentNum]

Rule(slug, selector, text, pattern) ==
    [slug |-> slug, selector |-> selector, text |-> text, pattern |-> pattern]

\* Rule entries: two that share the slug "a", a conjunction, a slug that
\* normalizes to nothing and an entry with no condition.
RuleChoices ==
    { Rule(<<"A">>, <<" ", "s">>, None, None),
      Rule(<<"a">>, None, <<"B">>, None),
      Rule(<<"b">>, None, None, <<"p">>),
      Rule(<<"b", "1">>, <<"s">>, <<"b">>, None),
      Rule(<<"-">>, None, <<"b">>, None),
      Rule(<<"a">>, None, <<" ">>, None) }

CategoryTargets ==
    {[TargetBase EXCEPT !.category_rules = rules] : rules \in SeqsUpTo(RuleChoices, MaxRules)}

Elem(title, href, text, nodes, node_text, has_text, searches) ==
    [title |-> title, href |-> href, snippet |-> <<>>, link_text |-> <<>>,
     text |-> text, nodes |-> nodes, node_text |-> node_text,
     has_text |-> has_text, searches |-> searches]

Selectors == {<<"s">>, <<"c">>}
NoNodeText == [sel \in Selectors |-> <<>>]
NoSearches == [pat \in ValidPatterns |-> NoMatch]

CategoryElems ==
    {Elem(<<"A">>, <<"u">>, <<"A">>, nodes, NoNodeText, has_text,
          [NoSearches EXCEPT ![<<"p">>] = hit])
        : nodes \in SUBSET {<<"s">>}, has_text \in SUBSET {<<"b">>},
          hit \in {NoMatch, EmptyMap}}

Cap(city, region, phone) ==
    [EmptyMap EXCEPT !["city"] = city, !["region"] = region, !["phone"] = phone]

CapsP == {NoMatch, Cap(<<" ">>, None, None), Cap(<<" ", "P">>, None, <<"1">>),
          Cap(None, <<"B">>, <<"1">>)}
CapsQ == {NoMatch, Cap(<<"Q">>, None, None), Cap(<<"Q">>, <<"b">>, None)}

LocationTargets ==
    {[TargetBase EXCEPT !.address_selectors = sel, !.address_patterns = pats]
        : sel \in {EmptyMap, [EmptyMap EXCEPT !["city"] = <<"c", " ">>],
                   [EmptyMap EXCEPT !["city"] = <<" ">>],
                   [EmptyMap EXCEPT !["phone"] = <<"c">>]},
          pats \in SeqsUpTo({<<"p">>, <<"q">>, <<"(">>}, MaxPatterns)}

LocationElems ==
    {Elem(<<"A">>, <<"u">>, <<"A">>, nodes, [NoNodeText EXCEPT ![<<"c">>] = txt], {},
          [pat \in ValidPatterns |-> IF pat = <<"p">> THEN cp ELSE cq])
        : nodes \in {{<<"c">>}}, txt \in {<<>>, <<"H">>}, cp \in CapsP, cq \in CapsQ}
    \cup
    {Elem(<<"A">>, <<"u">>, <<"A">>, {}, NoNodeText, {},
          [pat \in ValidPatterns |-> IF pat = <<"p">> THEN cp ELSE cq])
        : cp \in CapsP, cq \in CapsQ}
    \cup
    \* a listing with a link only: its listing text is empty
    {Elem(<<>>, <<"u">>, <<>>, {}, NoNodeText, {},
          [pat \in ValidPatterns |-> Cap(<<"P">>, None, None)])}

\* Candidates with and without a title and a link; the last link is blank.
MaxPageLen == 3

TitleLinkElems ==
    {Elem(title, href, title, {}, NoNodeText, {}, NoSearches)
        : title \in {<<>>, <<"A">>}, href \in {<<>>, <<"u">>, <<" ">>}}

ParsePages(target) ==
    IF target = TargetBase
    THEN SeqsUpTo(CategoryElems, MaxElems) \cup SeqsUpTo(TitleLinkElems, MaxPageLen)
    ELSE IF target \in CategoryTargets
    THEN SeqsUpTo(CategoryElems, MaxElems)
    ELSE SeqsUpTo(LocationElems, MaxElems)

InitParse ==
    /\ parsePc = "input"
    /\ parseTarget \in CategoryTargets \cup LocationTargets
    /\ parseHtml = <<>>
    /\ parsed = <<>>

ParseListings ==
    /\ parsePc = "input"
    /\ \E html \in ParsePages(parseTarget) :
          /\ parseHtml' = html
          /\ parsed' = parse_listings(html, parseTarget, <<"L">>, None)
    /\ parsePc' = "parsed"
    /\ UNCHANGED <<parseTarget, notParse>>

NextParse == ParseListings

-----------------------------------------------------------------------------
(* Claims about parse_listings *)

\* Pages of which no element was dropped: listing i comes from element i.
AllRetained == parsePc = "parsed" /\ Len(parsed) = Len(parseHtml)

LiveRules == _prepare_category_rules(parseTarget.category_rules)

\* A rule matches when every condition it has holds.
RuleHolds(element, rule) ==
    /\ (rule.selector # None => rule.selector \in element.nodes)
    /\ (rule.text # None => rule.text \in element.has_text)
    /\ (rule.pattern # None => element.searches[rule.pattern] # NoMatch)

MatchingRules(rules, element) ==
    {i \in 1..Len(rules) : RuleHolds(element, rules[i])}

FirstRuleWith(rules, hits, slug) ==
    Min({i \in hits : rules[i].slug = slug})

\* C7: the categories of a listing are the slugs of all matching rules in
\* declaration order, each slug once (also when two matching rules share a
\* slug); the primary slug is the slug of the first matching rule, and a
\* listing matching no rule has no primary slug.
C7_CategoryRulesInOrder ==
    AllRetained =>
        LET rules == LiveRules
        IN  \A n \in 1..Len(parsed) :
                LET cats == parsed[n].categories
                    hits == MatchingRules(rules, parseHtml[n])
                IN  /\ {cats[j] : j \in 1..Len(cats)} = {rules[i].slug : i \in hits}
                    /\ \A j, k \in 1..Len(cats) : j < k =>
                           /\ cats[j] # cats[k]
                           /\ FirstRuleWith(rules, hits, cats[j])
                                < FirstRuleWith(rules, hits, cats[k])
                    /\ IF hits = {}
                       THEN parsed[n].category_slug = None
                       ELSE parsed[n].category_slug = rules[Min(hits)].slug

\* A listing that matches two rules sharing one slug and a third rule with
\* another slug.
C7_Witness ==
    /\ AllRetained
    /\ \E n \in 1..Len(parsed) :
          /\ Len(parsed[n].categories) = 2
          /\ Cardinality(MatchingRules(LiveRules, parseHtml[n])) = 3

LiveSelectors == _prepare_address_selectors(parseTarget.address_selectors)
LivePatterns == _prepare_address_patterns(parseTarget.address_patterns)

\* The non-empty text of the node the field's selector finds, else None.
SelectorValue(selectors, element, field) ==
    IF /\ selectors[field] # None
       /\ selectors[field] \in element.nodes
       /\ element.node_text[selectors[field]] # <<>>
    THEN element.node_text[selectors[field]]
    ELSE None

\* The patterns, by position, that matched the listing text and captured
\* something for the field.
CapturingPatterns(patterns, element, field) ==
    {i \in 1..Len(patterns) :
        /\ ~ListingTextEmpty(element, element.title, element.snippet, element.link_text)
        /\ element.searches[patterns[i]] # NoMatch
        /\ Truthy(element.searches[patterns[i]][field])}

\* The stripped capture of the first pattern that captured the field.
FirstCapture(patterns, element, field) ==
    Strip(element.searches[patterns[Min(CapturingPatterns(patterns, element, field))]][field],
          WhitespaceChars)

\* C8: a non-empty selector-derived value of an address field is never
\* replaced by a pattern-derived one; the value an earlier pattern captured
\* is never replaced by a later pattern; groups outside the fixed fields
\* never appear; a location with no non-empty field is absent, never an
\* empty mapping.
C8_LocationPrecedence ==
    AllRetained =>
        LET selectors == LiveSelectors
            patterns == LivePatterns
        IN  \A n \in 1..Len(parsed) :
                LET element == parseHtml[n]
                    loc == parsed[n].location
                IN  /\ loc # EmptyMap
                    /\ \A field \in LOCATION_FIELDS :
                          /\ SelectorValue(selectors, element, field) # None =>
                                /\ loc # NoLocation
                                /\ loc[field] = SelectorValue(selectors, element, field)
                          /\ (SelectorValue(selectors, element, field) = None
                              /\ CapturingPatterns(patterns, element, field) # {}
                              /\ loc # NoLocation /\ loc[field] # None) =>
                                loc[field] = FirstCapture(patterns, element, field)
                    /\ loc # NoLocation =>
                          /\ \A k \in LocKeys \ LOCATION_FIELDS : loc[k] = None
                          /\ \E field \in LOCATION_FIELDS : Truthy(loc[field])
                          /\ \A field \in LOCATION_FIELDS : loc[field] # <<>>

\* A listing whose city the selector and both patterns provide, with three
\* different values, and whose pattern also captured a group outside the
\* fixed fields.
C8_Witness ==
    /\ AllRetained
    /\ \E n \in 1..Len(parsed) :
          /\ SelectorValue(LiveSelectors, parseHtml[n], "city") = <<"H">>
          /\ Cardinality(CapturingPatterns(LivePatterns, parseHtml[n], "city")) = 2
          /\ \E i \in 1..Len(LivePatterns) :
                Truthy(parseHtml[n].searches[LivePatterns[i]]["phone"])
          /\ parsed[n].location # NoLocation

\* An earlier pattern's capture kept against a later pattern's, with no
\* selector value for the field.
C8_WitnessPatterns ==
    /\ AllRetained
    /\ \E n \in 1..Len(parsed) :
          /\ SelectorValue(LiveSelectors, parseHtml[n], "city") = None
          /\ Cardinality(CapturingPatterns(LivePatterns, parseHtml[n], "city")) = 2
          /\ parsed[n].location # NoLocation
          /\ parsed[n].location["city"] = <<"P">>

\* The candidate has a title or a link that is not blank.
HasTitleOrUrl(element) ==
    element.title # <<>> \/ Strip(element.href, WhitespaceChars) # <<>>

\* C14: parse_listings returns one listing per candidate element that has a
\* title or a url, in document order, and none for a candidate with
\* neither; every listing returned has a non-empty title or a non-empty url.
C14_TitleOrUrlRetained ==
    parsePc = "parsed" =>
        LET kept == SelectSeq(parseHtml, HasTitleOrUrl)
        IN  /\ Len(parsed) = Len(kept)
            /\ \A n \in 1..Len(parsed) :
                  /\ parsed[n].title = kept[n].title
                  /\ parsed[n].url = Strip(kept[n].href, WhitespaceChars)
                  /\ parsed[n].title # <<>> \/ parsed[n].url # <<>>

\* A page of three candidates whose second, with a blank link and no title,
\* was dropped between a listing with a link only and one with a title only.
C14_Witness ==
    /\ parsePc = "parsed"
    /\ Len(parseHtml) = 3
    /\ parseHtml[1].title = <<>> /\ parseHtml[1].href = <<"u">>
    /\ parseHtml[2].title = <<>> /\ parseHtml[2].href = <<" ">>
    /\ parseHtml[3].title = <<"A">> /\ parseHtml[3].href = <<>>
    /\ Len(parsed) = 2
    /\ parsed[1].url = <<"u">>
    /\ parsed[2].title = <<"A">>

-----------------------------------------------------------------------------
(* SpecRun: Crawler.run over bounded configurations, pages and responses *)

RootBase ==
    [api_targets |-> <<>>, api_endpoint |-> None, api_token |-> None,
     api_request_timeout |-> AbsentNum, request_timeout |-> AbsentNum,
     post_processing |-> NoPostProcessing, targets |-> <<>>]

FieldRule(name, source, attribute, complete, renders) ==
    [name |-> name, source |-> source, attribute |-> attribute,
     complete |-> complete, renders |-> renders]

AiSummary == FieldRule("summary", "ai", "", TRUE, TRUE)
ScrapeDescription == FieldRule("description", "scrape", "snippet", TRUE, TRUE)

SummaryRule ==
    [kind |-> "dict", always |-> "true", prompt_template |-> "ok",
     provider |-> "str", model |-> "str"]

\* The crawl targets of the runs: two locations; keywords; an ai field; an
\* ai field after a scraped one; an ai field and no location; a limit; no
\* category; a classifier; post-processing with a generated summary.
RunTargets ==
    { [TargetBase EXCEPT !.locations = << <<"L">>, <<"M">> >>],
      [TargetBase EXCEPT !.keywords = << <<"k">>, <<"j">> >>],
      [TargetBase EXCEPT !.fields = <<AiSummary>>],
      [TargetBase EXCEPT !.fields = <<ScrapeDescription, AiSummary>>,
                         !.locations = << <<"L">>, <<"M">> >>],
      [TargetBase EXCEPT !.fields = <<AiSummary>>, !.locations = <<>>],
      [TargetBase EXCEPT !.listings_per_location = IntNum(1)],
      [TargetBase EXCEPT !.category = None],
      [TargetBase EXCEPT !.category_classifier =
          [dict |-> TRUE, complete |-> TRUE, renders |-> TRUE,
           choices |-> << <<"b">> >>]],
      [TargetBase EXCEPT !.post_processing =
          [EmptyPostProcessing EXCEPT !.summary = SummaryRule]],
      [TargetBase EXCEPT !.fields = <<ScrapeDescription>>,
                         !.category_classifier =
          [dict |-> TRUE, complete |-> TRUE, renders |-> TRUE,
           choices |-> << <<"b">> >>]] }

\* A target with two locations and two keywords.
GridTarget ==
    [TargetBase EXCEPT !.locations = << <<"L">>, <<"M">> >>,
                       !.keywords = << <<"k">>, <<"j">> >>]

\* Targets whose listings_per_location is no positive int.
LimitTargets ==
    {[TargetBase EXCEPT !.listings_per_location = limit]
        : limit \in {IntNum(0), FloatNum(1), StrNum}}

\* A field rule that declares categorySlug as the listing's title, and a
\* category rule that infers the slug "b" for an element holding "b".
DeclaredSlug == FieldRule("categorySlug", "scrape", "title", TRUE, TRUE)

\* A field rule that has the client write the title.
AiTitle == FieldRule("title", "ai", "", TRUE, TRUE)
InferRule == Rule(<<"B">>, None, <<"b">>, None)

\* A category one character longer than the maximum slug length, with a
\* hyphen where the slug is cut.
LongCategory == Repeat("a", MAX_SLUG_LENGTH - 1) \o <<"-", "b">>

\* Targets that differ in where the category slug of a payload can come
\* from: the declared field, the inferred slug, the target's own keys.
CategoryRunTargets ==
    { [TargetBase EXCEPT !.fields = <<DeclaredSlug>>],
      [TargetBase EXCEPT !.fields = <<DeclaredSlug>>, !.category_rules = <<InferRule>>],
      [TargetBase EXCEPT !.category_rules = <<InferRule>>],
      [TargetBase EXCEPT !.category_rules = <<InferRule>>, !.category = None],
      [TargetBase EXCEPT !.fields = <<DeclaredSlug>>, !.category = None],
      [TargetBase EXCEPT !.category = <<" ", "A", " ", "-", "b", "!">>],
      [TargetBase EXCEPT !.category = LongCategory],
      [TargetBase EXCEPT !.category_slug = <<"B">>],
      [TargetBase EXCEPT !.categorySlug = <<"1">>, !.category = None] }

RunTargetLists ==
    {<<>>}
    \cup {<<target>> : target \in RunTargets \cup LimitTargets \cup CategoryRunTargets}
    \cup { << TargetBase, [TargetBase EXCEPT !.fields = <<AiSummary>>] >>,
           << GridTarget >>,
           << [TargetBase EXCEPT !.fields = <<AiTitle>>] >> }

Entry(name, endpoint, token, api_token, timeout) ==
    [NoEntry EXCEPT !.name = name, !.endpoint = endpoint, !.token = token,
                    !.api_token = api_token, !.timeout = timeout]

\* The API configurations: a list of two, a list of one next to a default
\* pair, the default pair alone, nothing, an entry without a token, and a
\* default endpoint without its token.
ApiConfigs ==
    { [RootBase EXCEPT !.api_targets =
          << Entry(None, <<"d">>, <<"t">>, None, AbsentNum),
             Entry(<<"n">>, <<"p">>, None, <<"u">>, IntNum(3)) >>],
      [RootBase EXCEPT !.api_targets = << Entry(None, <<"d">>, <<"t">>, None, AbsentNum) >>,
                       !.api_endpoint = <<"e">>, !.api_token = <<"k">>],
      [RootBase EXCEPT !.api_endpoint = <<"e">>, !.api_token = <<"k">>],
      RootBase,
      [RootBase EXCEPT !.api_targets =
          << Entry(None, <<"d">>, <<"t">>, None, AbsentNum),
             Entry(None, <<"p">>, None, None, AbsentNum) >>],
      [RootBase EXCEPT !.api_endpoint = <<"e">>] }

RunConfigs ==
    {[root EXCEPT !.targets = targets] : root \in ApiConfigs, targets \in RunTargetLists}

\* Configurations that differ in the five places a POST timeout can come
\* from; each place is absent, positive (its own value) or unusable.
OwnTimeouts == {AbsentNum, IntNum(11), IntNum(0)}
TargetApiTimeouts == {AbsentNum, IntNum(12), StrNum}
RootApiTimeouts == {AbsentNum, IntNum(13), IntNum(-1)}
TargetRequestTimeouts == {AbsentNum, IntNum(14), NoNum}
RootRequestTimeouts == {AbsentNum, FloatNum(16), FloatNum(0)}

TimeoutConfigs ==
    { [RootBase EXCEPT
          !.api_targets = IF listed
                          THEN << Entry(None, <<"d">>, <<"t">>, None, own) >>
                          ELSE <<>>,
          !.api_endpoint = IF listed THEN None ELSE <<"e">>,
          !.api_token = IF listed THEN None ELSE <<"k">>,
          !.api_request_timeout = rootApi,
          !.request_timeout = rootRequest,
          !.targets = << [TargetBase EXCEPT !.api_request_timeout = targetApi,
                                            !.request_timeout = targetRequest] >>]
        : listed \in BOOLEAN, own \in OwnTimeouts, targetApi \in TargetApiTimeouts,
          rootApi \in RootApiTimeouts, targetRequest \in TargetRequestTimeouts,
          rootRequest \in RootRequestTimeouts }

RunElement(title, href) == Elem(title, href, title, {}, NoNodeText, {}, NoSearches)

\* Search pages: no listing, one, two, one without a title, and a page
\* whose first element has neither title nor link.
RunPages ==
    { <<>>,
      << RunElement(<<"A">>, <<"u">>) >>,
      << RunElement(<<"A">>, <<"u">>), RunElement(<<"B">>, <<"v">>) >>,
      << RunElement(<<>>, <<"w">>) >>,
      << RunElement(<<>>, <<>>), RunElement(<<"A">>, <<"u">>) >>,
      \* an element the rule InferRule matches, before one it does not match
      << Elem(<<"A">>, <<"u">>, <<"A">>, {}, NoNodeText, {<<"b">>}, NoSearches),
         RunElement(<<"B">>, <<"v">>) >>,
      \* a title that normalizes to the empty slug
      << RunElement(<<"-">>, <<"u">>) >>,
      \* a listing without a title between two that have one
      << RunElement(<<"A">>, <<"u">>), RunElement(<<>>, <<"w">>),
         RunElement(<<"B">>, <<"v">>) >> }

\* The pages a search of the target can answer with.
RunPagesOf(target) ==
    IF target = GridTarget THEN {<<>>, << RunElement(<<"A">>, <<"u">>) >>} ELSE RunPages

\* Answers of the text-generation client
LLMResponses == {<<"b">>, <<>>}
LLMClients == {"none", "ok", "raises"}

\* The (target, location batch) pairs in the order run visits them.
RunPlan(config) ==
    ConcatAll([t \in 1..Len(config.targets) |->
        LET location_batches == _iter_location_batches(config.targets[t])
        IN  [i \in 1..Len(location_batches) |->
                [target |-> t, location_batch |-> location_batches[i]]]])

CrawlerBatch(target, location_batch, listings) ==
    [category |-> IF target.category = None THEN <<>> ELSE target.category,
     location |-> location_batch.location,
     subdomain |-> target.subdomain,
     listings |-> listings,
     metadata |-> [search_url |-> location_batch.search_url,
                   keyword |-> location_batch.keyword]]

\* The arguments of session.get and session.post as the transport sees them.
GetCall(index, location_batch, target, response_ok) ==
    [kind |-> "GET", index |-> index, url |-> location_batch.search_url, token |-> None,
     timeout |-> FetchTimeout(target), listings |-> <<>>, ok |-> response_ok]

\* session.post sent to the target's name in place of its endpoint.
PostCallToName(index, api_target, payloads, timeout, response_ok) ==
    [kind |-> "POST", index |-> index, url |-> api_target.name, token |-> api_target.token,
     timeout |-> timeout, listings |-> payloads, ok |-> response_ok]

PostCall(index, api_target, payloads, timeout, response_ok) ==
    [kind |-> "POST", index |-> index, url |-> api_target.endpoint,
     token |-> api_target.token, timeout |-> timeout, listings |-> payloads,
     ok |-> response_ok]

\* An exception that a step of run raises but that does not leave run.
PropagateSwallowed(ok, next) == next

\* run has no try/except: after a step that raised, control is with the
\* caller; after a step that returned, at the next statement.
Propagate(ok, next) == IF ok THEN next ELSE "error"

InitRun ==
    /\ runPc = "start"
    /\ runConfig \in RunConfigs \cup TimeoutConfigs
    /\ runLlm \in LLMClients
    /\ runApiTargets = <<>>
    /\ runPlan = <<>>
    /\ runIdx = 1
    /\ runListings = <<>>
    /\ runBatches = <<>>
    /\ runPayloads = <<>>
    /\ runApiIdx = 1
    /\ runEvents = <<>>
    /\ runHtml = <<>>
    /\ runRaised = ""

\* target and location_batch of the loops of run
RunTarget == runConfig.targets[runPlan[runIdx].target]
RunLocationBatch == runPlan[runIdx].location_batch

\* api_targets = self._resolve_api_targets(config), and the pairs the two
\* loops of run will visit
ResolveApiTargets ==
    /\ runPc = "start"
    /\ \E resolved \in {_resolve_api_targets(runConfig)} :
          /\ runApiTargets' = resolved.targets
          /\ runPlan' = IF resolved.ok THEN RunPlan(runConfig) ELSE runPlan
          /\ runPc' = Propagate(resolved.ok, "fetch")
          /\ runRaised' = IF resolved.ok THEN "" ELSE "config"
    /\ UNCHANGED <<runConfig, runLlm, runIdx, runListings, runBatches, runPayloads,
                   runApiIdx, runEvents, runHtml, notRun>>

\* listings = self.fetch_listings(target, location_batch), then the limit
FetchListings ==
    /\ runPc = "fetch"
    /\ runIdx <= Len(runPlan)
    /\ \E response_ok \in BOOLEAN, html \in RunPagesOf(RunTarget) :
       \E passed \in {raise_for_status(response_ok)} :
          /\ runEvents' = Append(runEvents,
                              GetCall(runIdx, RunLocationBatch, RunTarget, response_ok))
          /\ runListings' =
                IF passed
                THEN ApplyLimit(parse_listings(html, RunTarget,
                                               RunLocationBatch.location,
                                               RunLocationBatch.keyword),
                                RunTarget.listings_per_location)
                ELSE runListings
          /\ runHtml' = IF passed THEN Append(runHtml, html) ELSE runHtml
          /\ runPc' = Propagate(passed, "classify")
          /\ runRaised' = IF passed THEN "" ELSE "fetch"
    /\ UNCHANGED <<runConfig, runLlm, runApiTargets, runPlan, runIdx, runBatches,
                   runPayloads, runApiIdx, notRun>>

\* self._assign_classifier_categories(listings, target, location_batch)
AssignClassifierCategories ==
    /\ runPc = "classify"
    /\ \E response \in LLMResponses :
       \E assigned \in {_assign_classifier_categories(runListings, RunTarget,
                                                      runLlm, response)} :
          /\ runListings' = IF assigned.ok THEN assigned.listings ELSE runListings
          /\ runPc' = Propagate(assigned.ok, "fields")
          /\ runRaised' = IF assigned.ok THEN "" ELSE "classifier"
    /\ UNCHANGED <<runConfig, runLlm, runApiTargets, runPlan, runIdx, runBatches,
                   runPayloads, runApiIdx, runEvents, runHtml, notRun>>

\* if target.get("fields"): self._populate_fields(...), then batches.append
PopulateFields ==
    /\ runPc = "fields"
    /\ \E response \in LLMResponses :
       \E populated \in {IF RunTarget.fields # <<>>
                         THEN _populate_fields(runListings, RunTarget, RunLocationBatch,
                                               runLlm, response)
                         ELSE [ok |-> TRUE, listings |-> runListings]} :
          /\ runListings' = IF populated.ok THEN populated.listings ELSE runListings
          /\ runBatches' =
                IF populated.ok
                THEN Append(runBatches,
                            CrawlerBatch(RunTarget, RunLocationBatch, populated.listings))
                ELSE runBatches
          /\ runPc' = Propagate(populated.ok, "build")
          /\ runRaised' = IF populated.ok THEN "" ELSE "fields"
    /\ UNCHANGED <<runConfig, runLlm, runApiTargets, runPlan, runIdx, runPayloads,
                   runApiIdx, runEvents, runHtml, notRun>>

\* _post_batch_to_api up to its loop: the early returns and the payloads.
\* _build_listing_payload writes the category into the listings of the batch.
BuildPayloads ==
    /\ runPc = "build"
    /\ \E response \in LLMResponses :
       \E returns \in {runListings = <<>> \/ runApiTargets = <<>>} :
       \E built \in {_build_ingestion_payloads(runListings, RunTarget, runConfig,
                                               runLlm, response)} :
       \E posts \in {~returns /\ built.ok /\ built.payloads # <<>>} :
          /\ runListings' = IF returns THEN runListings ELSE built.listings
          /\ runBatches' = IF returns THEN runBatches
                           ELSE [runBatches EXCEPT ![Len(runBatches)].listings =
                                    built.listings]
          /\ runPayloads' = IF posts THEN built.payloads ELSE <<>>
          /\ runApiIdx' = 1
          /\ runIdx' = IF (returns \/ built.ok) /\ ~posts THEN runIdx + 1 ELSE runIdx
          /\ runPc' = Propagate(returns \/ built.ok, IF posts THEN "post" ELSE "fetch")
          /\ runRaised' = IF returns \/ built.ok THEN "" ELSE "payload"
    /\ UNCHANGED <<runConfig, runLlm, runApiTargets, runPlan, runEvents, runHtml, notRun>>

\* A loop over the API targets that starts at the last of them.
ApiTargetFromEnd(api_targets, turn) == api_targets[Len(api_targets) + 1 - turn]

\* api_target of the turn-th turn of `for api_target in api_targets`
ApiTargetAt(api_targets, turn) == api_targets[turn]

\* One turn of the loop of _post_batch_to_api over the API targets
PostToTarget ==
    /\ runPc = "post"
    /\ \E response_ok \in BOOLEAN :
       \E passed \in {raise_for_status(response_ok)} :
       \E last \in {runApiIdx = Len(runApiTargets)} :
          /\ runEvents' =
                Append(runEvents,
                       PostCall(runIdx, ApiTargetAt(runApiTargets, runApiIdx), runPayloads,
                                _resolve_api_timeout(ApiTargetAt(runApiTargets, runApiIdx),
                                                     RunTarget, runConfig),
                                response_ok))
          /\ runApiIdx' = IF passed /\ ~last THEN runApiIdx + 1 ELSE runApiIdx
          /\ runIdx' = IF passed /\ last THEN runIdx + 1 ELSE runIdx
          /\ runPc' = Propagate(passed, IF last THEN "fetch" ELSE "post")
          /\ runRaised' = IF passed THEN "" ELSE "post"
    /\ UNCHANGED <<runConfig, runLlm, runApiTargets, runPlan, runListings, runBatches,
                   runPayloads, runHtml, notRun>>

\* return batches
ReturnBatches ==
    /\ runPc = "fetch"
    /\ runIdx > Len(runPlan)
    /\ runPc' = "done"
    /\ UNCHANGED <<runConfig, runLlm, runApiTargets, runPlan, runIdx, runListings,
                   runBatches, runPayloads, runApiIdx, runEvents, runHtml, runRaised, notRun>>

NextRun ==
    \/ ResolveApiTargets
    \/ FetchListings
    \/ AssignClassifierCategories
    \/ PopulateFields
    \/ BuildPayloads
    \/ PostToTarget
    \/ ReturnBatches

-----------------------------------------------------------------------------
(* Claims about Crawler.run *)

\* The crawl target of the b-th (target, location batch) pair
TargetOf(b) == runConfig.targets[runPlan[b].target]

\* The POSTs of the b-th batch, in the order they were sent
PostsOf(b) == SelectSeq(runEvents, LAMBDA e : e.kind = "POST" /\ e.index = b)

\* The batch holds a listing _build_listing_payload makes a payload of.
Buildable(b) ==
    \E n \in 1..Len(runBatches[b].listings) :
        LET listing == runBatches[b].listings[n]
        IN  Truthy(Or(_normalize_string(listing.fields["title"]),
                      _normalize_string(listing.title)))

\* C1: the POSTs of a batch go to the resolved API targets in their order,
\* the i-th to target i's endpoint with target i's token, all with the same
\* listings array; a batch with a buildable payload whose POSTs all
\* succeeded got exactly one POST per API target.
C1_OnePostPerApiTarget ==
    \A b \in 1..Len(runBatches) :
        LET posts == PostsOf(b)
        IN  /\ Len(posts) <= Len(runApiTargets)
            /\ \A i \in 1..Len(posts) :
                  /\ posts[i].url = runApiTargets[i].endpoint
                  /\ posts[i].token = runApiTargets[i].token
                  /\ posts[i].listings = posts[1].listings
                  /\ posts[i].listings # <<>>
            /\ (b < runIdx /\ Buildable(b)) =>
                  /\ Len(posts) = Len(runApiTargets)
                  /\ \A i \in 1..Len(posts) : posts[i].ok
            /\ ~Buildable(b) => posts = <<>>

\* A finished run with two API targets, one of them named, whose first
\* batch of two listings was sent to both.
C1_Witness ==
    /\ runPc = "done"
    /\ Len(runApiTargets) = 2
    /\ runApiTargets[2].name # runApiTargets[2].endpoint
    /\ Len(runBatches) >= 1
    /\ Len(PostsOf(1)) = 2
    /\ Len(PostsOf(1)[1].listings) = 2

\* C2 as stated: when the POST of a batch to one API target fails, every
\* remaining API target of the batch is still sent its POST before the
\* failure reaches the caller.
C2_RemainingStillPosted ==
    (runPc = "error" /\ runRaised = "post") =>
        Len(PostsOf(runIdx)) = Len(runApiTargets)

\* C2: a POST that returns a non-success response is the last request of the
\* run: no remaining API target of the batch is sent its POST, and the
\* failure is with the caller of run.
C2_FailedPostEndsDispatch ==
    \A i \in 1..Len(runEvents) :
        (runEvents[i].kind = "POST" /\ ~runEvents[i].ok) =>
            /\ i = Len(runEvents)
            /\ runPc = "error"
            /\ runRaised = "post"

\* The POST to the first of two API targets failed; the second got none.
C2_Witness ==
    /\ runPc = "error"
    /\ Len(runApiTargets) = 2
    /\ runEvents # <<>>
    /\ runEvents[Len(runEvents)].kind = "POST"
    /\ ~runEvents[Len(runEvents)].ok
    /\ runEvents[Len(runEvents)].url = runApiTargets[1].endpoint

\* C3: once a step of run has raised (the search-page fetch, the classifier,
\* field resolution, payload construction or a POST), run is with its caller
\* in error: no GET or POST follows, no batch is added, and run never
\* returns its batch list.
C3_FailFast ==
    [][(runRaised # "" \/ \E i \in 1..Len(runEvents) : ~runEvents[i].ok) =>
          /\ runPc = "error"
          /\ runPc' = "error"
          /\ runEvents' = runEvents
          /\ runBatches' = runBatches]_vars

\* A run that raised in its first batch with a later batch still to visit.
C3_Witness ==
    /\ runPc = "error"
    /\ runRaised \in {"fetch", "classifier", "fields", "payload", "post"}
    /\ runIdx < Len(runPlan)

\* The configured timeout of the k-th API target itself: the entry's
\* "timeout"; the default api_endpoint/api_token pair has none.
OwnTimeout(k) ==
    IF runConfig.api_targets # <<>>
    THEN _coerce_positive_timeout(runConfig.api_targets[k].timeout)
    ELSE 0

\* C6 as stated: the timeout of every POST is the first positive number
\* among the API target's own timeout, the crawl target's
\* api_request_timeout, the root api_request_timeout, the crawl target's
\* request_timeout and the root request_timeout, else the crawler's default,
\* with the api_targets list and with the default pair alike.
C6_TimeoutPrecedence ==
    \A b \in 1..Len(runBatches) :
        \A k \in 1..Len(PostsOf(b)) :
            LET candidates ==
                    << OwnTimeout(k),
                       _coerce_positive_timeout(TargetOf(b).api_request_timeout),
                       _coerce_positive_timeout(runConfig.api_request_timeout),
                       _coerce_positive_timeout(TargetOf(b).request_timeout),
                       _coerce_positive_timeout(runConfig.request_timeout) >>
                positive == {i \in 1..Len(candidates) : candidates[i] # 0}
            IN  PostsOf(b)[k].timeout =
                    IF positive # {} THEN candidates[Min(positive)] ELSE DEFAULT_TIMEOUT

\* A POST to the default pair sent with the root api_request_timeout while
\* the crawl target has a positive api_request_timeout of its own.
C6_Witness ==
    /\ runConfig.api_targets = <<>>
    /\ Len(runBatches) >= 1
    /\ PostsOf(1) # <<>>
    /\ _coerce_positive_timeout(TargetOf(1).api_request_timeout) # 0
    /\ _coerce_positive_timeout(runConfig.api_request_timeout) # 0
    /\ PostsOf(1)[1].timeout = _coerce_positive_timeout(runConfig.api_request_timeout)

\* The target has a field whose source is `ai`.
HasAiField(target) ==
    \E i \in 1..Len(target.fields) : FieldSource(target.fields[i]) = "ai"

\* C9 as stated: with an `ai` field configured for a crawl target and no
\* client supplied, running the crawler over that target (a search page of
\* the target was fetched) raises: the run never returns.
C9_AlwaysRaises ==
    (runLlm = "none"
     /\ \E i \in 1..Len(runEvents) :
            /\ runEvents[i].kind = "GET"
            /\ runEvents[i].ok
            /\ HasAiField(TargetOf(runEvents[i].index)))
        => runPc # "done"

\* C9: with no client supplied, the first batch of a target with an `ai`
\* field that holds a listing raises: every batch of such a target that run
\* got past is empty, and no POST is sent for such a target; a run whose
\* batches of that target are all empty may return.
C9_AiFieldNeedsClient ==
    runLlm = "none" =>
        /\ \A b \in 1..Len(runBatches) :
              HasAiField(TargetOf(b)) => runBatches[b].listings = <<>>
        /\ \A i \in 1..Len(runEvents) :
              runEvents[i].kind = "POST" => ~HasAiField(TargetOf(runEvents[i].index))
        /\ (runPc \in {"build", "post"} /\ HasAiField(RunTarget)) => runListings = <<>>

\* Field resolution raised for a listing of a target with an `ai` field.
C9_Witness ==
    /\ runLlm = "none"
    /\ runPc = "error"
    /\ runRaised = "fields"
    /\ HasAiField(RunTarget)
    /\ runListings # <<>>

\* The GETs of the run, in the order they were sent
Gets == SelectSeq(runEvents, LAMBDA e : e.kind = "GET")

\* The (target, location, keyword) combinations of a configuration:
\* targets, then locations, then keywords; None is the keyword of a target
\* without keywords.
Combinations(config) ==
    ConcatAll([t \in 1..Len(config.targets) |->
        LET target == config.targets[t]
            keywords == IF target.keywords = <<>> THEN <<None>> ELSE target.keywords
        IN  ConcatAll([l \in 1..Len(target.locations) |->
                [k \in 1..Len(keywords) |->
                    [target |-> t, location |-> target.locations[l],
                     keyword |-> keywords[k]]]])])

\* C12: a run that returned holds one batch per (target, location, keyword)
\* combination, in the order targets, locations, keywords, a target without
\* keywords giving one combination per location; one GET was sent per
\* batch, the i-th GET to the search url of the i-th batch.
C12_OneBatchPerCombination ==
    runPc = "done" =>
        LET combos == Combinations(runConfig)
        IN  /\ Len(runBatches) = Len(combos)
            /\ Len(Gets) = Len(runBatches)
            /\ \A i \in 1..Len(runBatches) :
                  /\ runBatches[i].location = combos[i].location
                  /\ runBatches[i].metadata.keyword = combos[i].keyword
                  /\ runBatches[i].category =
                        Or(runConfig.targets[combos[i].target].category, <<>>)
                  /\ Gets[i].url = runBatches[i].metadata.search_url
                  /\ Gets[i].url =
                        build_search_url(runConfig.targets[combos[i].target],
                                         combos[i].location, combos[i].keyword)

\* A run over two locations and two keywords that returned four batches.
C12_Witness ==
    /\ runPc = "done"
    /\ runConfig.targets = << GridTarget >>
    /\ Len(runBatches) = 4
    /\ runBatches[2].location = <<"L">> /\ runBatches[2].metadata.keyword = <<"j">>
    /\ runBatches[3].location = <<"M">> /\ runBatches[3].metadata.keyword = <<"k">>

\* The listings parse_listings extracted from the page of the b-th batch
Extracted(b) ==
    parse_listings(runHtml[b], TargetOf(b), runPlan[b].location_batch.location,
                   runPlan[b].location_batch.keyword)

\* listings_per_location is a positive int
PositiveLimit(target) ==
    target.listings_per_location.kind = "int" /\ target.listings_per_location.v > 0

\* C13: with a positive int limit L a batch holds the first L extracted
\* listings in document order (all of them when there are fewer) and no POST
\* of the batch carries more than L listings; with any other limit the
\* batch holds every extracted listing.
C13_ListingsPerLocation ==
    \A b \in 1..Len(runBatches) :
        LET extracted == Extracted(b)
            held == runBatches[b].listings
            limit == TargetOf(b).listings_per_location
        IN  IF PositiveLimit(TargetOf(b))
            THEN /\ Len(held) = Min({limit.v, Len(extracted)})
                 /\ \A n \in 1..Len(held) :
                       held[n].title = extracted[n].title /\ held[n].url = extracted[n].url
                 /\ \A i \in 1..Len(PostsOf(b)) : Len(PostsOf(b)[i].listings) <= limit.v
            ELSE /\ Len(held) = Len(extracted)
                 /\ \A n \in 1..Len(held) :
                       held[n].title = extracted[n].title /\ held[n].url = extracted[n].url

\* A batch cut to one listing out of three extracted, and posted.
C13_Witness ==
    \E b \in 1..Len(runBatches) :
        /\ PositiveLimit(TargetOf(b))
        /\ Len(Extracted(b)) = 3
        /\ Len(runBatches[b].listings) = 1
        /\ PostsOf(b) # <<>>

\* The listing gets a payload: its generated or its scraped title is not empty.
HasTitle(listing) ==
    Truthy(Or(_normalize_string(listing.fields["title"]), _normalize_string(listing.title)))

\* The listings of a batch that get a payload, in the order of the batch
Titled(listings) == SelectSeq(listings, HasTitle)

\* The first of three values that is not empty
FirstAvailable(declared, inferred, configured) ==
    IF Truthy(declared) THEN declared ELSE IF Truthy(inferred) THEN inferred ELSE configured

\* The step of _post_batch_to_api that built the payloads it goes on to post
BuiltToPost == runPc = "build" /\ runPc' = "post"

\* C15 as stated: the categorySlug of each payload built for posting is the
\* slug of the first available of the declared categorySlug, the inferred
\* primary slug and the target's category.
C15_CategoryFromTargetCategory ==
    [][BuiltToPost =>
          LET sources == Titled(runListings)
          IN  /\ Len(runPayloads') = Len(sources)
              /\ \A k \in 1..Len(sources) :
                    runPayloads'[k].fields["categorySlug"] =
                        _slugify(FirstAvailable(sources[k].fields["categorySlug"],
                                                sources[k].category_slug,
                                                RunTarget.category))]_vars

\* The category a target configures: its category_slug, else its
\* categorySlug, else its category.
TargetCategory(target) ==
    FirstAvailable(target.category_slug, target.categorySlug, target.category)

\* C15: the categorySlug of each payload built for posting is the slug of
\* the first available of the declared categorySlug, the inferred primary
\* slug and the category the target configures under category_slug,
\* categorySlug or category, in this order.
C15_CategorySlugPrecedence ==
    [][BuiltToPost =>
          LET sources == Titled(runListings)
          IN  /\ Len(runPayloads') = Len(sources)
              /\ \A k \in 1..Len(sources) :
                    runPayloads'[k].fields["categorySlug"] =
                        _slugify(FirstAvailable(sources[k].fields["categorySlug"],
                                                sources[k].category_slug,
                                                TargetCategory(RunTarget)))]_vars

\* A posted batch whose first listing took its declared slug "a" although a
\* rule had inferred "b" for it and the target has a category.
C15_Witness ==
    \E b \in 1..Len(runBatches) :
        /\ TargetOf(b).fields = <<DeclaredSlug>>
        /\ TargetOf(b).category_rules = <<InferRule>>
        /\ runBatches[b].listings # <<>>
        /\ runBatches[b].listings[1].categories # <<>>
        /\ runBatches[b].listings[1].categories[1] = <<"b">>
        /\ PostsOf(b) # <<>>
        /\ PostsOf(b)[1].listings[1].fields["categorySlug"] = <<"a">>

\* Neither the root nor the target configures post-processing, so that
\* building a payload can only raise the category slug error.
NoGeneration(target) ==
    /\ runConfig.post_processing = NoPostProcessing
    /\ target.post_processing = NoPostProcessing

\* None of the three sources of the listing's category slug normalizes to a
\* slug.
NoSlugSource(listing, target) ==
    /\ _slugify(listing.fields["categorySlug"]) = <<>>
    /\ _slugify(listing.category_slug) = <<>>
    /\ _slugify(TargetCategory(target)) = <<>>

\* C16 as stated: building the payloads of a batch raises the category slug
\* error only when some listing of the batch has no source that normalizes
\* to a slug.
C16_RaisesOnlyWithoutAnySlug ==
    [][(runPc = "build" /\ runPc' = "error" /\ NoGeneration(RunTarget)) =>
          \E n \in 1..Len(runListings) : NoSlugSource(runListings[n], RunTarget)]_vars

\* A run that raised while building the payloads of a batch whose every
\* listing has a declared slug that normalizes to "a", the target having no
\* category.
C16_Witness ==
    /\ runPc = "error"
    /\ runRaised = "payload"
    /\ NoGeneration(RunTarget)
    /\ TargetCategory(RunTarget) = None
    /\ runListings # <<>>
    /\ \A n \in 1..Len(runListings) :
          _slugify(runListings[n].fields["categorySlug"]) = <<"a">>

\* C17: every POST of a batch carries one payload per listing of the batch
\* that has a generated or scraped title, in the order of the batch (the
\* payload's sourceUrl is the listing's url), and none for a listing
\* without; it never carries more payloads than the batch has listings.
C17_UntitledListingOmitted ==
    \A b \in 1..Len(runBatches) :
        \A i \in 1..Len(PostsOf(b)) :
            LET posted == PostsOf(b)[i].listings
                titled == Titled(runBatches[b].listings)
            IN  /\ Len(posted) = Len(titled)
                /\ Len(posted) <= Len(runBatches[b].listings)
                /\ \A k \in 1..Len(posted) :
                      /\ posted[k].fields["sourceUrl"] = titled[k].url
                      /\ Truthy(posted[k].fields["title"])

\* A batch of three listings, the second without a title, of which the
\* first and the third were posted.
C17_Witness ==
    \E b \in 1..Len(runBatches) :
        /\ Len(runBatches[b].listings) = 3
        /\ ~HasTitle(runBatches[b].listings[2])
        /\ PostsOf(b) # <<>>
        /\ Len(PostsOf(b)[1].listings) = 2
        /\ PostsOf(b)[1].listings[1].fields["sourceUrl"] = <<"u">>
        /\ PostsOf(b)[1].listings[2].fields["sourceUrl"] = <<"v">>

\* The endpoints of the entries of the api_targets list
ListedEndpoints ==
    {runConfig.api_targets[i].endpoint : i \in 1..Len(runConfig.api_targets)}

\* No usable list and no complete default pair, or a list entry without
\* endpoint or token.
Unconfigured ==
    IF runConfig.api_targets = <<>>
    THEN ~(Truthy(runConfig.api_endpoint) /\ Truthy(runConfig.api_token))
    ELSE \E i \in 1..Len(runConfig.api_targets) :
            \/ ~Truthy(runConfig.api_targets[i].endpoint)
            \/ ~Truthy(EntryToken(runConfig.api_targets[i]))

\* C18: with a non-empty api_targets list every POST goes to an endpoint of
\* the list and none to the default api_endpoint; with no usable list and no
\* complete default pair, or with a list entry that lacks endpoint or token,
\* run raises the configuration error before any GET or POST.
C18_ApiTargetResolution ==
    /\ runConfig.api_targets # <<>> =>
          \A i \in 1..Len(runEvents) :
              runEvents[i].kind = "POST" =>
                  /\ runEvents[i].url \in ListedEndpoints
                  /\ runEvents[i].url # runConfig.api_endpoint
    /\ (Unconfigured /\ runPc \notin {"start", "idle"}) =>
          /\ runPc = "error"
          /\ runRaised = "config"
          /\ runEvents = <<>>

\* A POST to the listed endpoint of a configuration that also has a
\* complete default pair.
C18_Witness ==
    /\ runConfig.api_targets # <<>>
    /\ Truthy(runConfig.api_endpoint) /\ Truthy(runConfig.api_token)
    /\ \E i \in 1..Len(runEvents) :
          runEvents[i].kind = "POST" /\ runEvents[i].url = <<"d">>

\* A run that raised the configuration error for a default endpoint without
\* its token.
C18_WitnessUnconfigured ==
    /\ runPc = "error"
    /\ runRaised = "config"
    /\ runConfig.api_targets = <<>>
    /\ Truthy(runConfig.api_endpoint)

\* Only lowercase letters, digits and single hyphens, no hyphen at either
\* end, at most MAX_SLUG_LENGTH characters.
WellFormedSlug(slug) ==
    /\ Len(slug) <= MAX_SLUG_LENGTH
    /\ \A i \in 1..Len(slug) : SlugValidChar(slug[i]) \/ slug[i] = "-"
    /\ \A i \in 1..(Len(slug) - 1) : ~(slug[i] = "-" /\ slug[i + 1] = "-")
    /\ slug # <<>> => (slug[1] # "-" /\ slug[Len(slug)] # "-")

\* C11: every slug that slug normalization returns, in the crawler and in
\* the text importer, consists only of lowercase letters, digits and single
\* hyphens, has no hyphen at either end and is at most 80 characters long;
\* so is the categorySlug of every listing of every POST of a crawl.
C11_SlugWellFormed ==
    /\ slugPc \in {"once", "twice"} => WellFormedSlug(slugOnce)
    /\ \A i \in 1..Len(runEvents) :
          runEvents[i].kind = "POST" =>
              \A k \in 1..Len(runEvents[i].listings) :
                  /\ IsStr(runEvents[i].listings[k].fields["categorySlug"])
                  /\ runEvents[i].listings[k].fields["categorySlug"] # <<>>
                  /\ WellFormedSlug(runEvents[i].listings[k].fields["categorySlug"])

\* A POST whose listing carries the slug of a category longer than the
\* maximum: cut at the maximum, and the hyphen the cut ended in removed.
C11_Witness ==
    \E i \in 1..Len(runEvents) :
        /\ runEvents[i].kind = "POST"
        /\ runConfig.targets[1].category = LongCategory
        /\ runEvents[i].listings # <<>>
        /\ runEvents[i].listings[1].fields["categorySlug"] = Repeat("a", MAX_SLUG_LENGTH - 1)

\* An input of spaces, capitals and doubled hyphens around the maximum
\* length, normalized to a shorter slug.
C11_WitnessNormalized ==
    /\ slugPc = "once"
    /\ Len(slugInput) > MAX_SLUG_LENGTH
    /\ Contains(slugInput, <<"-", "-">>)
    /\ slugOnce # <<>>
    /\ Len(slugOnce) < MAX_SLUG_LENGTH

-----------------------------------------------------------------------------
(* SpecImport: the json/csv path of text_import.run_cli *)

MaxRecords == 2

ImportFields == {"title", "slug", "summary", "description", "categorySlug", "sourceName"}
NoImportFields == [k \in ImportFields |-> None]

\* text_import._normalize_string: strip, then collapse the whitespace inside
TextImportNormalizeString(value) ==
    IF IsStr(value) /\ Strip(value, WhitespaceChars) # <<>>
    THEN _collapse_whitespace(Strip(value, WhitespaceChars))
    ELSE None

\* The category expression of _normalize_payload.  Python reads
\* `a or b or slugify(c) if c else ""` as `(a or b or slugify(c)) if c else ""`.
ImportCategorySlug(listing, defaults) ==
    IF Truthy(defaults.category)
    THEN Or(TextImportNormalizeString(listing.categorySlug),
            Or(defaults.category_slug, slugify(defaults.category)))
    ELSE <<>>

\* ListingEnricher._normalize_payload from the values of its statements
NormalizedFrom(title, slug, summary, description, category_slug, source_name) ==
    IF ~Truthy(title) \/ ~Truthy(category_slug)
    THEN [ok |-> FALSE, payload |-> NoImportFields]
    ELSE [ok |-> TRUE,
          payload |-> [NoImportFields EXCEPT
                          !["title"] = title,
                          !["slug"] = slug,
                          !["summary"] = IF Truthy(summary) THEN summary ELSE None,
                          !["description"] = IF Truthy(description) THEN description ELSE None,
                          !["categorySlug"] = category_slug,
                          !["sourceName"] = IF Truthy(source_name) THEN source_name ELSE None]]

\* ListingEnricher._normalize_payload: [ok, payload]; ok = FALSE is the
\* ValueError of a missing title or category.
_normalize_payload(listing, defaults) ==
    NormalizedFrom(
        TextImportNormalizeString(listing.title),
        Or(TextImportNormalizeString(listing.slug),
           slugify(TextImportNormalizeString(listing.title))),
        TextImportNormalizeString(Or(listing.summary, listing.snippet)),
        TextImportNormalizeString(listing.description),
        ImportCategorySlug(listing, defaults),
        Or(TextImportNormalizeString(listing.sourceName), defaults.source_name))

\* ListingEnricher._validate_listing_quality: the fields a warning is
\* recorded for.  The records of the model carry no websiteUrl, contactEmail
\* or location, and no url or email to validate.
_validate_listing_quality(payload) ==
    SelectSeq(<<"summary", "description">>, LAMBDA field : ~Truthy(payload[field]))
    \o <<"websiteUrl", "contactEmail", "location">>

\* ListingEnricher._build_context, the attributes process reads
_build_context(payload, listing) ==
    [title |-> payload["title"],
     snippet |-> Or(TextImportNormalizeString(listing.snippet), payload["summary"]),
     summary |-> payload["summary"],
     description |-> payload["description"]]

\* The body of the try of ListingEnricher.enrich for one record:
\* [ok, final, warnings]; ok = FALSE is an exception.
EnrichBody(normalized, listing, post_processing_config, llm, response) ==
    IF ~normalized.ok
    THEN [ok |-> FALSE, final |-> NoImportFields, warnings |-> <<>>]
    ELSE [ok |-> process(normalized.payload, _build_context(normalized.payload, listing),
                         post_processing_config, llm, response).ok,
          final |-> process(normalized.payload, _build_context(normalized.payload, listing),
                            post_processing_config, llm, response).payload,
          warnings |-> _validate_listing_quality(normalized.payload)]

\* An except clause that re-raises also when there is a tracker.
OnExceptionRaise(result) == "raise"

\* The except clause of enrich: with a tracker (an ImportResult is truthy)
\* the error is recorded, without one it is raised again.
OnException(result) == IF result THEN "add_error" ELSE "raise"

\* The test of run_cli that ignores --dry-run.
ShouldIngestDespiteDryRun(dry_run, enriched) == enriched # <<>>

\* run_cli: `if args.dry_run: return ...` and `if enriched:`
ShouldIngest(dry_run, enriched) == ~dry_run /\ enriched # <<>>

\* ListingAPIIngestor.ingest: the arguments of session.post
ingest(endpoint, token, listings, response_ok) ==
    [url |-> endpoint, token |-> token, listings |-> listings, ok |-> response_ok]

ImportRecord(title, categorySlug, summary) ==
    [title |-> title, slug |-> None, summary |-> summary, snippet |-> None,
     description |-> None, categorySlug |-> categorySlug, sourceName |-> None]

\* Input records: complete ones, one without a category, one without a
\* title, one whose title is blank.
ImportRecords ==
    { ImportRecord(<<"A">>, <<"b">>, <<"a", " ", " ", "b">>),
      ImportRecord(<<"B", " ">>, <<"a">>, None),
      ImportRecord(<<"A">>, None, None),
      ImportRecord(None, <<"b">>, None),
      ImportRecord(<<" ">>, <<"b">>, <<"a">>) }

ImportDefaults(category, category_slug) ==
    [category |-> category, category_slug |-> category_slug, source_name |-> None]

ImportDefaultsChoices ==
    { ImportDefaults(None, None), ImportDefaults(<<"A", " ", "b">>, None),
      ImportDefaults(None, <<"a">>), ImportDefaults(<<"A">>, <<"b">>) }

ImportConfigs == {NoPostProcessing, [EmptyPostProcessing EXCEPT !.summary = SummaryRule]}

InitImport ==
    /\ impPc = "enrich"
    /\ impListings \in SeqsUpTo(ImportRecords, MaxRecords)
    /\ impDefaults \in ImportDefaultsChoices
    /\ impDryRun \in BOOLEAN
    /\ impLlm \in LLMClients
    /\ impConfig \in ImportConfigs
    /\ impIndex = 1
    /\ impEnriched = <<>>
    /\ impSuccessful = <<>>
    /\ impFailed = <<>>
    /\ impWarnings = <<>>
    /\ impReport = [total |-> 0, successful |-> 0, failed |-> 0, warnings |-> 0]
    /\ impPosts = <<>>
    /\ impExit = -1

\* One turn of the loop of enrich, called by run_cli with an ImportResult
EnrichRecord ==
    /\ impPc = "enrich"
    /\ impIndex <= Len(impListings)
    /\ \E response \in LLMResponses :
       \E body \in {EnrichBody(_normalize_payload(impListings[impIndex], impDefaults),
                               impListings[impIndex], impConfig, impLlm, response)} :
       \E handled \in {IF body.ok THEN "add_success" ELSE OnException(TRUE)} :
          /\ impEnriched' = IF body.ok THEN Append(impEnriched, body.final) ELSE impEnriched
          /\ impSuccessful' =
                IF body.ok
                THEN Append(impSuccessful, [listing |-> body.final, line |-> impIndex])
                ELSE impSuccessful
          /\ impFailed' =
                IF handled = "add_error"
                THEN Append(impFailed, [listing |-> impListings[impIndex], line |-> impIndex])
                ELSE impFailed
          /\ impWarnings' =
                impWarnings \o [i \in 1..Len(body.warnings) |->
                                   [line |-> impIndex, field |-> body.warnings[i]]]
          /\ impIndex' = IF handled = "raise" THEN impIndex ELSE impIndex + 1
          /\ impPc' = IF handled = "raise" THEN "error" ELSE "enrich"
    /\ UNCHANGED <<impListings, impDefaults, impDryRun, impLlm, impConfig, impReport,
                   impPosts, impExit, notImport>>

\* import_result.save(report_path) and print_summary(): the tallies
SaveReport ==
    /\ impPc = "enrich"
    /\ impIndex > Len(impListings)
    /\ impReport' = [total |-> Len(impSuccessful) + Len(impFailed),
                     successful |-> Len(impSuccessful),
                     failed |-> Len(impFailed),
                     warnings |-> Len(impWarnings)]
    /\ impPc' = "ingest"
    /\ UNCHANGED <<impListings, impDefaults, impDryRun, impLlm, impConfig, impIndex,
                   impEnriched, impSuccessful, impFailed, impWarnings, impPosts, impExit,
                   notImport>>

\* The end of run_cli: the dry-run return, the ingestion, the exit code
IngestOrSkip ==
    /\ impPc = "ingest"
    /\ \E response_ok \in BOOLEAN :
       \E ingests \in {ShouldIngest(impDryRun, impEnriched)} :
       \E passed \in {~ingests \/ raise_for_status(response_ok)} :
          /\ impPosts' = IF ingests
                         THEN Append(impPosts,
                                     ingest(<<"e">>, <<"k">>, impEnriched, response_ok))
                         ELSE impPosts
          /\ impPc' = IF passed THEN "done" ELSE "error"
          /\ impExit' = IF ~passed THEN impExit
                        ELSE IF impFailed = <<>> THEN 0 ELSE 1
    /\ UNCHANGED <<impListings, impDefaults, impDryRun, impLlm, impConfig, impIndex,
                   impEnriched, impSuccessful, impFailed, impWarnings, impReport,
                   notImport>>

NextImport ==
    \/ EnrichRecord
    \/ SaveReport
    \/ IngestOrSkip

-----------------------------------------------------------------------------
(* Claims about the import path *)

\* The lines recorded in a list of the tracker
LinesOf(entries) == [i \in 1..Len(entries) |-> entries[i].line]

\* C4: enrich with a tracker never raises for a bad record: every record
\* processed so far is in exactly one of successful and failed, once, so
\* the two lengths sum to the number of records processed, and the loop
\* goes on to the last record whatever failed before.
C4_EachRecordOnce ==
    /\ Len(impSuccessful) + Len(impFailed) = impIndex - 1
    /\ \A line \in 1..(impIndex - 1) :
          Cardinality({i \in 1..Len(impSuccessful) : impSuccessful[i].line = line})
          + Cardinality({i \in 1..Len(impFailed) : impFailed[i].line = line}) = 1
    /\ impPc = "error" => impPosts # <<>>
    /\ impPc \in {"ingest", "done", "error"} => impIndex - 1 = Len(impListings)

\* The first record failed and the second was enriched after it.
C4_Witness ==
    /\ impPc = "ingest"
    /\ LinesOf(impFailed) = <<1>>
    /\ LinesOf(impSuccessful) = <<2>>

\* C5: ingest is called at most once; when run_cli has ended it was called
\* exactly if dry-run is off and a record was enriched; what it posts are
\* the successfully enriched records in input order, and none that failed.
C5_IngestOnlySuccesses ==
    /\ Len(impPosts) <= 1
    /\ impPc \in {"done", "error"} =>
          (impPosts # <<>> <=> (~impDryRun /\ impSuccessful # <<>>))
    /\ \A p \in 1..Len(impPosts) :
          /\ impPosts[p].listings = [i \in 1..Len(impSuccessful) |-> impSuccessful[i].listing]
          /\ \A i, j \in 1..Len(impSuccessful) :
                i < j => impSuccessful[i].line < impSuccessful[j].line
          /\ \A i \in 1..Len(impSuccessful), j \in 1..Len(impFailed) :
                impSuccessful[i].line # impFailed[j].line

\* A run that posted the one enriched record of two after the other failed.
C5_Witness ==
    /\ impPc = "done"
    /\ ~impDryRun
    /\ Len(impFailed) = 1
    /\ Len(impPosts) = 1
    /\ Len(impPosts[1].listings) = 1

-----------------------------------------------------------------------------
(* SpecProcess: one call of ListingPostProcessor.process *)

\* A configured limit below the length of the short texts
SmallLimit == 2

\* Texts one character longer than the default limits, with a blank where
\* the cut falls.
LongSummary == Repeat("a", DEFAULT_SUMMARY_MAX_CHARS - 1) \o <<" ", "b">>
LongDescription == Repeat("a", DEFAULT_DESCRIPTION_MAX_CHARS - 1) \o <<" ", "b">>

ShortText == Repeat("A", SmallLimit - 1) \o <<" ", "b">>

\* What the client answers: text with blanks to collapse, or text longer
\* than every limit.
ShortResponse == <<"b", " ", " ", "A">>

Input(payload, context, config, llm, response) ==
    [payload |-> payload, context |-> context, config |-> config, llm |-> llm,
     response |-> response]

\* Generation rules: one that generates for a blank value, one that always
\* generates, one without provider.
WhenBlankRule == [SummaryRule EXCEPT !.always = "absent"]
ProcessRules == {NoRule, SummaryRule, WhenBlankRule, [SummaryRule EXCEPT !.provider = "absent"]}

ProcessConfigs ==
    {NoPostProcessing}
    \cup { [EmptyPostProcessing EXCEPT !.summary_max_chars = summary_max_chars,
                                       !.description_max_chars = description_max_chars,
                                       !.summary = summary, !.description = description] :
             summary_max_chars \in {AbsentNum, IntNum(SmallLimit), IntNum(0)},
             description_max_chars \in {AbsentNum, FloatNum(SmallLimit)},
             summary \in ProcessRules,
             description \in {NoRule, EmptyRule, WhenBlankRule} }

\* Calls on short texts: summary and description missing, empty, blank or
\* set, in the payload and in the context, under every configuration.
ShortInputs ==
    { Input([NoFields EXCEPT !["summary"] = summary, !["description"] = description],
            [title |-> <<"A">>, snippet |-> snippet, summary |-> context_summary,
             description |-> context_description],
            config, llm, ShortResponse) :
        summary \in {None, <<>>, <<" ">>, ShortText},
        description \in {None, <<" ">>, ShortText},
        snippet \in {None, ShortResponse},
        context_summary \in {None, <<"B">>},
        context_description \in {None, <<"B">>},
        config \in ProcessConfigs,
        llm \in LLMClients }

\* Calls on texts longer than the default limits, with and without rules
\* and configured limits.
LongConfigs ==
    { NoPostProcessing,
      [EmptyPostProcessing EXCEPT !.summary = WhenBlankRule, !.description = WhenBlankRule],
      [EmptyPostProcessing EXCEPT !.summary = SummaryRule, !.description = WhenBlankRule,
                                  !.summary_max_chars = IntNum(SmallLimit),
                                  !.description_max_chars = FloatNum(SmallLimit)] }

LongInputs ==
    { Input([NoFields EXCEPT !["summary"] = summary, !["description"] = description],
            [title |-> <<"A">>, snippet |-> snippet, summary |-> None, description |-> None],
            config, "ok", LongDescription) :
        summary \in {None, LongSummary},
        description \in {None, LongDescription},
        snippet \in {None, LongSummary},
        config \in LongConfigs }

InitProcess ==
    /\ procPc = "input"
    /\ \E input \in ShortInputs \cup LongInputs :
          /\ procPayload = input.payload
          /\ procContext = input.context
          /\ procConfig = input.config
          /\ procLlm = input.llm
          /\ procResponse = input.response
    /\ procResult = [ok |-> TRUE, payload |-> NoFields, calls |-> <<>>]

\* processor.process(payload, context, config), returning
ProcessReturns ==
    /\ procPc = "input"
    /\ \E result \in {process(procPayload, procContext, procConfig, procLlm, procResponse)} :
          /\ result.ok
          /\ procResult' = result
          /\ procPc' = "returned"
    /\ UNCHANGED <<procPayload, procContext, procConfig, procLlm, procResponse, notProcess>>

\* processor.process(payload, context, config), raising out of _generate_field
ProcessRaises ==
    /\ procPc = "input"
    /\ \E result \in {process(procPayload, procContext, procConfig, procLlm, procResponse)} :
          /\ ~result.ok
          /\ procResult' = result
          /\ procPc' = "raised"
    /\ UNCHANGED <<procPayload, procContext, procConfig, procLlm, procResponse, notProcess>>

NextProcess == ProcessReturns \/ ProcessRaises

-----------------------------------------------------------------------------
(* Claims about process *)

\* The limit in force for a field: the configured value when it is a
\* positive number, else the default of the processor.
EffectiveLimit(configured, default) ==
    IF configured.kind \in {"int", "float"} /\ configured.v > 0 THEN configured.v ELSE default

WithinLimit(value, limit) ==
    IsStr(value) =>
        /\ Len(value) <= limit
        /\ value # <<>> => value[Len(value)] \notin WhitespaceChars

C19_WitnessGenerated ==
    /\ procPc = "returned"
    /\ procResult.calls = <<"summary">>
    /\ procResponse = LongDescription
    /\ Len(procResult.payload["summary"]) = SmallLimit

\* The current value of a field: the payload's, else the context's
CurrentValue(field) ==
    IF field = "summary" THEN Or(procPayload["summary"], procContext.summary)
    ELSE Or(procPayload["description"], procContext.description)

\* Missing, empty or whitespace-only
Blank(value) == value = None \/ (IsStr(value) /\ Strip(value, WhitespaceChars) = <<>>)

ConfiguredRule(field) ==
    IF field = "summary" THEN RuleMapping(ConfigMap(procConfig).summary)
    ELSE RuleMapping(ConfigMap(procConfig).description)

\* A rule is configured for the field and it forces regeneration or the
\* current value is blank.
GenerationDue(field) ==
    /\ RuleTruthy(ConfiguredRule(field))
    /\ ConfiguredRule(field).always = "true" \/ Blank(CurrentValue(field))

Invocations(field) ==
    Cardinality({i \in 1..Len(procResult.calls) : procResult.calls[i] = field})

\* The invocation part of C20: when process has returned, the client was
\* invoked once for each field whose generation was due and not at all for
\* the other field.
InvokedExactlyWhenDue ==
    procPc = "returned" =>
        \A field \in {"summary", "description"} :
            Invocations(field) = IF GenerationDue(field) THEN 1 ELSE 0

\* The summary process makes of the snippet
FromSnippet ==
    _truncate(_collapse_whitespace(procContext.snippet),
              EffectiveLimit(ConfigMap(procConfig).summary_max_chars,
                             DEFAULT_SUMMARY_MAX_CHARS))

\* C20 as stated: when process has returned, the client was invoked once
\* for each field whose generation was due and not at all for the other
\* field, and a blank summary that was not generated has been filled from
\* the snippet.
C20_InvokedOrFilledFromSnippet ==
    /\ InvokedExactlyWhenDue
    /\ (/\ procPc = "returned"
        /\ ~GenerationDue("summary")
        /\ Blank(CurrentValue("summary"))
        /\ IsStr(procContext.snippet))
       => procResult.payload["summary"] = FromSnippet

\* A whitespace-only summary with no rule and a snippet at hand, returned
\* as the empty string.
C20_Witness ==
    /\ procPc = "returned"
    /\ CurrentValue("summary") = <<" ">>
    /\ ~GenerationDue("summary")
    /\ procContext.snippet = ShortResponse
    /\ procResult.payload["summary"] = <<>>

\* C21 as stated: with a generation rule configured for summary or
\* description and no client, process does not return a payload.
C21_RuleWithoutClientFails ==
    (/\ procLlm = "none"
     /\ \E field \in {"summary", "description"} : RuleTruthy(ConfiguredRule(field)))
    => procPc # "returned"

\* C21: with no client, process does not return a payload when the
\* generation of summary or description is due, that is when a rule is
\* configured for the field and it forces regeneration or the current value
\* of the field is missing, empty or whitespace-only; it raises before any
\* invocation.
C21_DueGenerationWithoutClientFails ==
    (/\ procLlm = "none"
     /\ procPc \in {"returned", "raised"}
     /\ \E field \in {"summary", "description"} : GenerationDue(field))
    => (procPc = "raised" /\ procResult.calls = <<>>)

\* A call without client that raised for a summary rule on a blank summary.
C21_Witness ==
    /\ procPc = "raised"
    /\ procLlm = "none"
    /\ ConfiguredRule("summary") = WhenBlankRule
    /\ Blank(CurrentValue("summary"))
    /\ procResult.calls = <<>>

-----------------------------------------------------------------------------
(* SpecMerge: _resolve_post_processing_config on a root and a target config *)

\* A value under "summary" or "description" that is no mapping
OtherRule == [NoRule EXCEPT !.kind = "other"]

MergeRules ==
    { NoRule, OtherRule, EmptyRule, SummaryRule,
      [EmptyRule EXCEPT !.always = "false"],
      [EmptyRule EXCEPT !.prompt_template = "bad", !.provider = "str"] }

\* post_processing of a config: missing, no mapping, or a mapping with any
\* of its keys missing.
MergeConfigs ==
    { NoPostProcessing, [NoPostProcessing EXCEPT !.kind = "other"] }
    \cup { [EmptyPostProcessing EXCEPT !.normalize_titles = normalize_titles,
                                       !.summary_max_chars = summary_max_chars,
                                       !.summary = summary, !.description = description] :
             normalize_titles \in {"absent", "true", "false"},
             summary_max_chars \in {AbsentNum, IntNum(1), IntNum(SmallLimit)},
             summary \in MergeRules,
             description \in {NoRule, WhenBlankRule} }

InitMerge ==
    /\ mergePc = "input"
    /\ mergeRoot \in MergeConfigs
    /\ mergeTarget \in MergeConfigs
    /\ merged = NoPostProcessing

\* self._resolve_post_processing_config(root_config, target_config); the
\* mappings it works on are copies (dict(value), dict(base)).
ResolvePostProcessingConfig ==
    /\ mergePc = "input"
    /\ merged' = _resolve_post_processing_config([post_processing |-> mergeRoot],
                                                 [post_processing |-> mergeTarget])
    /\ mergePc' = "resolved"
    /\ UNCHANGED <<mergeRoot, mergeTarget, notMerge>>

NextMerge == ResolvePostProcessingConfig

-----------------------------------------------------------------------------
(* Claims about the merge *)

ScalarKeys == {"normalize_titles"}
NumberKeys == {"summary_max_chars", "description_max_chars"}
RuleKeys == {"summary", "description"}
NestedKeys == {"always", "prompt_template", "provider", "model"}

\* key in mapping
HasKey(mapping, key) ==
    IF key \in ScalarKeys THEN mapping[key] # "absent" ELSE mapping[key].kind # "absent"

IsMapping(value) == value.kind = "dict"

\* merged[key] follows the rule of the merge for root[key] and target[key]
KeyMerged(result, root, target, key) ==
    IF ~HasKey(target, key) THEN result[key] = root[key]
    ELSE IF key \in RuleKeys /\ IsMapping(root[key]) /\ IsMapping(target[key])
         THEN /\ IsMapping(result[key])
              /\ \A nested \in NestedKeys :
                    result[key][nested] = IF target[key][nested] # "absent"
                                          THEN target[key][nested] ELSE root[key][nested]
         ELSE result[key] = target[key]

\* C22: the effective configuration is the key-by-key merge of root and
\* target: a key only in root keeps the root value, a key in target takes
\* the target value, a key that is a mapping on both sides is merged by the
\* same rule; when only one side is a mapping the configuration process
\* reads from the result is that side (for an empty mapping the call may
\* return None, which process reads as the empty mapping); and the call
\* leaves root and target as they were.
C22_KeyByKeyMerge ==
    [][ResolvePostProcessingConfig =>
          /\ mergeRoot' = mergeRoot
          /\ mergeTarget' = mergeTarget
          /\ (IsMapping(mergeRoot) /\ IsMapping(mergeTarget)) =>
                /\ IsMapping(merged')
                /\ \A key \in ScalarKeys \cup NumberKeys \cup RuleKeys :
                      KeyMerged(merged', mergeRoot, mergeTarget, key)
          /\ (IsMapping(mergeRoot) /\ ~IsMapping(mergeTarget)) =>
                ConfigMap(merged') = mergeRoot
          /\ (~IsMapping(mergeRoot) /\ IsMapping(mergeTarget)) =>
                ConfigMap(merged') = mergeTarget
          /\ (~IsMapping(mergeRoot) /\ ~IsMapping(mergeTarget)) => ~IsMapping(merged')]_vars

\* A merge in which the target's summary rule sets only "always" and the
\* rest of the rule comes from the root, whose limit is overridden.
C22_Witness ==
    /\ mergePc = "resolved"
    /\ mergeRoot.summary = SummaryRule
    /\ mergeTarget.summary = [EmptyRule EXCEPT !.always = "false"]
    /\ merged.summary = [SummaryRule EXCEPT !.always = "false"]
    /\ mergeRoot.summary_max_chars = IntNum(1)
    /\ merged.summary_max_chars = IntNum(SmallLimit)
    /\ mergeRoot.normalize_titles = "false"
    /\ mergeTarget.normalize_titles = "absent"
    /\ merged.normalize_titles = "false"

-----------------------------------------------------------------------------
(* SpecClassify: one call of _assign_classifier_categories *)

MaxListings == 2

\* A listing as parse_listings leaves it: with the categories its rules
\* matched and the first of them as primary slug, or with neither.
ParsedListing(url, categories) ==
    [title |-> <<"A">>, snippet |-> <<>>, url |-> url, location |-> NoLocation,
     categories |-> categories,
     extras |-> [link_text |-> <<>>, location |-> <<"L">>, keyword |-> None],
     fields |-> NoFields,
     category_slug |-> IF categories = <<>> THEN None ELSE categories[1]]

ClassifyListings ==
    SeqsUpTo({ParsedListing(<<"u">>, <<>>), ParsedListing(<<"v">>, << <<"b">>, <<"a">> >>)},
             MaxListings)

\* choices of the classifier: none; one whose slug differs from it; two; one
\* that slugifies to nothing before one that does not; a blank one.
ChoiceLists ==
    { <<>>,
      << <<"A", " ", "b">> >>,
      << <<"B">>, <<"A", " ", "b">> >>,
      << <<"-">>, <<"a">> >>,
      << <<" ">>, <<"1">> >> }

Classifiers ==
    { NoClassifier,
      [NoClassifier EXCEPT !.dict = TRUE],
      [NoClassifier EXCEPT !.dict = TRUE, !.complete = TRUE] }
    \cup { [dict |-> TRUE, complete |-> TRUE, renders |-> TRUE, choices |-> choices] :
             choices \in ChoiceLists }

\* Answers of the client: a first segment, then nothing or a delimiter and
\* more text, with or without a blank in front; and no string at all.
ResponseSegments ==
    { <<>>, <<"1">>, <<"b">>, <<"A", " ", "b">>, <<"a", "-", "b">>,
      <<"1", "a", "-", "b">>, <<"1", "A", " ", "b">>, <<"-">> }

ResponseTails ==
    {<<>>}
    \cup { <<delimiter>> \o more :
             delimiter \in {"|", ",", "\n"},
             more \in { <<"a", " ", "b">>, <<"A", "-", "B">>, <<"1">> } }

ClassifierResponses ==
    {NonStr}
    \cup { lead \o segment \o tail :
             lead \in {<<>>, <<" ">>}, segment \in ResponseSegments, tail \in ResponseTails }

InitClassify ==
    /\ clsPc = "input"
    /\ clsListings \in ClassifyListings
    /\ clsClassifier \in Classifiers
    /\ clsLlm \in LLMClients
    /\ clsResponse \in ClassifierResponses
    /\ clsAfter = <<>>
    /\ clsInvoked = <<>>
    /\ clsSlug = None

\* The slug the call resolved, when the client answered at least once
ResolvedBy(assigned, classifier, response) ==
    IF assigned.ok /\ assigned.calls > 0
    THEN _resolve_classifier_slug(response, ClassifierChoices(classifier))
    ELSE None

\* self._assign_classifier_categories(listings, target, location_batch)
AssignCategories ==
    /\ clsPc = "input"
    /\ \E assigned \in {_assign_classifier_categories(
                            clsListings, [category_classifier |-> clsClassifier],
                            clsLlm, clsResponse)} :
          /\ clsAfter' = assigned.listings
          /\ clsInvoked' = assigned.invoked
          /\ clsSlug' = ResolvedBy(assigned, clsClassifier, clsResponse)
          /\ clsPc' = IF assigned.ok THEN "assigned" ELSE "raised"
    /\ UNCHANGED <<clsListings, clsClassifier, clsLlm, clsResponse, notClassify>>

NextClassify == AssignCategories

-----------------------------------------------------------------------------
(* Claims about the classifier fallback *)

\* The listing has no primary slug
Pending(listing) == ~Truthy(listing.category_slug)

\* C23: when the classifier stage of a target with a classifier returns,
\* the client was invoked exactly once for each listing that had no primary
\* slug and never for a listing that had one, and the primary slug and the
\* categories of the listings that had one are unchanged; when a listing
\* needs classification and there is no client, the stage raises without
\* touching a listing.
C23_ClassifierOnlyForPending ==
    /\ (clsPc = "assigned" /\ clsClassifier.dict) =>
          /\ Len(clsAfter) = Len(clsListings)
          /\ Len(clsInvoked) = Len(clsListings)
          /\ \A i \in 1..Len(clsListings) :
                /\ clsInvoked[i] = IF Pending(clsListings[i]) THEN 1 ELSE 0
                /\ ~Pending(clsListings[i]) => clsAfter[i] = clsListings[i]
    /\ (/\ clsPc \in {"assigned", "raised"}
        /\ clsClassifier.dict
        /\ clsLlm = "none"
        /\ \E i \in 1..Len(clsListings) : Pending(clsListings[i]))
       => (clsPc = "raised" /\ clsAfter = clsListings /\ clsInvoked = <<>>)
    /\ \A i \in 1..Len(clsInvoked) : ~Pending(clsListings[i]) => clsInvoked[i] = 0

\* A rule-matched listing left alone after a listing that was classified.
C23_Witness ==
    /\ clsPc = "assigned"
    /\ Len(clsListings) = 2
    /\ Pending(clsListings[1])
    /\ ~Pending(clsListings[2])
    /\ clsInvoked = <<1, 0>>
    /\ clsAfter[1].category_slug = <<"a", "-", "b">>
    /\ clsAfter[2] = clsListings[2]

\* The first line's first delimited segment of the response, cleaned
Segment(response) ==
    Strip(Before(Before(Before(Strip(response, WhitespaceChars), {"\n"}), {"|"}), {","}),
          WhitespaceChars)

\* The choices of the classifier that have a slug, in configured order
SluggedChoices ==
    SelectSeq(ClassifierChoices(clsClassifier), LAMBDA choice : _slugify(choice) # <<>>)

ChoiceSlugs == {_slugify(SluggedChoices[i]) : i \in 1..Len(SluggedChoices)}

\* The slug of the first choice that passes the test, or None
FirstChoice(Test(_)) ==
    LET passing == {i \in 1..Len(SluggedChoices) : Test(SluggedChoices[i])}
    IN  IF passing = {} THEN None ELSE _slugify(SluggedChoices[Min(passing)])

\* The resolution as C24 states it: (a) the segment equals a choice or its
\* slug, ignoring case; (b) a choice or its slug is contained in the segment
\* or in the full response; (c) the slug of the segment; no slug for a
\* response that is empty or slugifies to nothing.
StatedResolution(response) ==
    LET segment == Lower(Segment(response))
        full == Lower(Strip(response, WhitespaceChars))
        Equal(choice) == segment = Lower(choice) \/ segment = _slugify(choice)
        Contained(choice) ==
            \/ Contains(segment, Lower(choice)) \/ Contains(segment, _slugify(choice))
            \/ Contains(full, Lower(choice)) \/ Contains(full, _slugify(choice))
    IN  IF ~NonBlankStr(response) THEN None
        ELSE IF FirstChoice(Equal) # None THEN FirstChoice(Equal)
        ELSE IF FirstChoice(Contained) # None THEN FirstChoice(Contained)
        ELSE IF _slugify(Segment(response)) # <<>> THEN _slugify(Segment(response))
        ELSE None

\* The client answered and the stage returned
Answered == clsPc = "assigned" /\ \E i \in 1..Len(clsInvoked) : clsInvoked[i] = 1

\* C24 as stated: the slug resolved from a response is the one that steps
\* (a), (b), (c) give in this order, and None when the response is empty or
\* slugifies to nothing.
C24_ResolvedAsStated == Answered => clsSlug = StatedResolution(clsResponse)

\* The same order with step (b) as the code has it: a choice or its slug
\* contained in the segment, or its slug contained in the full response.
CodedResolution(response) ==
    LET segment == Lower(Segment(response))
        full == Lower(Strip(response, WhitespaceChars))
        Equal(choice) == segment = Lower(choice) \/ segment = _slugify(choice)
        Contained(choice) ==
            \/ Contains(segment, Lower(choice)) \/ Contains(segment, _slugify(choice))
            \/ Contains(full, _slugify(choice))
    IN  IF ~NonBlankStr(response) THEN None
        ELSE IF FirstChoice(Equal) # None THEN FirstChoice(Equal)
        ELSE IF FirstChoice(Contained) # None THEN FirstChoice(Contained)
        ELSE IF _slugify(Segment(response)) # <<>> THEN _slugify(Segment(response))
        ELSE None

\* The slug resolved from a response is the one the three steps give when
\* a choice itself is not looked for in the full response.
ResolvedAsCoded == Answered => clsSlug = CodedResolution(clsResponse)

\* A response whose second line holds the choice "A b" and whose first
\* line is "1", resolved to "1".
C24_Witness ==
    /\ Answered
    /\ clsClassifier.choices = << <<"A", " ", "b">> >>
    /\ clsResponse = <<"1", "\n", "a", " ", "b">>
    /\ clsSlug = <<"1">>

\* C25 as stated: with choices configured, every slug the classifier
\* assigns is the slug of one of the choices.
C25_AssignedSlugIsChoice ==
    (clsPc = "assigned" /\ SluggedChoices # <<>>) =>
        \A i \in 1..Len(clsListings) :
            (Pending(clsListings[i]) /\ ~Pending(clsAfter[i])) =>
                clsAfter[i].category_slug \in ChoiceSlugs

\* C25: with choices configured, every slug the classifier assigns is the
\* slug of one of the choices or, when the response holds the slug of no
\* choice, the slug of the response's first segment.
C25_AssignedSlugIsChoiceOrSegment ==
    (clsPc = "assigned" /\ SluggedChoices # <<>>) =>
        \A i \in 1..Len(clsListings) :
            (Pending(clsListings[i]) /\ ~Pending(clsAfter[i])) =>
                \/ clsAfter[i].category_slug \in ChoiceSlugs
                \/ /\ clsAfter[i].category_slug = _slugify(Segment(clsResponse))
                   /\ \A slug \in ChoiceSlugs :
                         ~Contains(Lower(Strip(clsResponse, WhitespaceChars)), slug)

\* A listing given the slug "1" of the response although the choices are
\* "B" and "A b".
C25_Witness ==
    /\ clsPc = "assigned"
    /\ Len(SluggedChoices) = 2
    /\ clsListings # <<>>
    /\ Pending(clsListings[1])
    /\ clsAfter[1].category_slug = <<"1">>
    /\ clsAfter[1].categories = << <<"1">> >>

-----------------------------------------------------------------------------
(* Claims about the category slug of an imported record *)

\* The slug of the default category label, when there is a label
LabelSlug(defaults) ==
    IF Truthy(defaults.category) THEN slugify(defaults.category) ELSE None

\* The first available of the record's own categorySlug, the defaults'
\* category slug and the slug of the default category label
StatedCategorySlug(listing, defaults) ==
    FirstAvailable(TextImportNormalizeString(listing.categorySlug),
                   defaults.category_slug, LabelSlug(defaults))

\* C29 as stated: without post-processing, every enriched record carries
\* the first available of the three category sources, and a record with a
\* title that failed had none of the three.
C29_FirstAvailableCategorySlug ==
    impConfig = NoPostProcessing =>
        /\ \A k \in 1..Len(impSuccessful) :
              impSuccessful[k].listing["categorySlug"] =
                  StatedCategorySlug(impListings[impSuccessful[k].line], impDefaults)
        /\ \A k \in 1..Len(impFailed) :
              Truthy(TextImportNormalizeString(impFailed[k].listing.title)) =>
                  ~Truthy(StatedCategorySlug(impFailed[k].listing, impDefaults))

\* With a default category label the category slug is as stated.
AsStatedWithLabel == Truthy(impDefaults.category) => C29_FirstAvailableCategorySlug

\* A record with a title and its own categorySlug, imported without a
\* default category label, is among the failed.
C29_Witness ==
    /\ impConfig = NoPostProcessing
    /\ ~Truthy(impDefaults.category)
    /\ \E k \in 1..Len(impFailed) :
          /\ impFailed[k].listing.title = <<"A">>
          /\ impFailed[k].listing.categorySlug = <<"b">>

-----------------------------------------------------------------------------
(* Claims about the order of the stages of Crawler.run *)

\* The Inference Engine has written to the listing.
Inferred(listing) ==
    \/ listing.category_slug # None
    \/ listing.categories # <<>>
    \/ listing.location # NoLocation

\* The same listings, with what the Inference Engine writes left as it was.
SameInference(before, after) ==
    /\ Len(after) = Len(before)
    /\ \A n \in 1..Len(before) :
          /\ after[n].category_slug = before[n].category_slug
          /\ after[n].categories = before[n].categories
          /\ after[n].location = before[n].location

\* The same listings, with their generated fields left as they were.
SameFields(before, after) ==
    /\ Len(after) = Len(before)
    /\ \A n \in 1..Len(before) : after[n].fields = before[n].fields

C26_WitnessRule ==
    /\ runPc = "build"
    /\ RunTarget.category_rules # <<>>
    /\ runListings # <<>>
    /\ runListings[1].category_slug = <<"b">>
    /\ runListings[1].fields # NoFields

-----------------------------------------------------------------------------
(* Claims about the network calls of Crawler.run *)

\* The number of POSTs of batch b among the first i calls
PostsUpTo(i, b) ==
    Cardinality({j \in 1..i : runEvents[j].kind = "POST" /\ runEvents[j].index = b})

\* C27: the calls of a run are one sequence in the order of the nested
\* loops: a call is issued only after the call before it has returned a
\* success response; the batch index never decreases along the sequence;
\* the first call of a batch is its GET; the k-th POST of a batch goes to
\* the k-th API target, so all POSTs of a batch precede the GET of the next.
C27_CallsInLoopOrder ==
    \A i \in 1..Len(runEvents) :
        LET call == runEvents[i]
        IN  /\ i < Len(runEvents) => call.ok
            /\ i > 1 => runEvents[i - 1].index <= call.index
            /\ call.kind = "GET" =>
                  \A j \in 1..(i - 1) : runEvents[j].index < call.index
            /\ call.kind = "POST" =>
                  /\ \E j \in 1..(i - 1) :
                        runEvents[j].kind = "GET" /\ runEvents[j].index = call.index
                  /\ PostsUpTo(i, call.index) <= Len(runApiTargets)
                  /\ call.url = runApiTargets[PostsUpTo(i, call.index)].endpoint
                  /\ call.token = runApiTargets[PostsUpTo(i, call.index)].token

\* A finished run of two batches and two API targets: GET, POST, POST, GET,
\* POST, POST.
C27_Witness ==
    /\ runPc = "done"
    /\ Len(runApiTargets) = 2
    /\ Len(runEvents) = 6
    /\ [i \in 1..6 |-> runEvents[i].kind] = <<"GET", "POST", "POST", "GET", "POST", "POST">>
    /\ [i \in 1..6 |-> runEvents[i].index] = <<1, 1, 1, 2, 2, 2>>

\* No batch has two GETs, and no batch has two POSTs to one API target.
AtMostOnce(events) ==
    \A i, j \in 1..Len(events) :
        (i < j /\ events[i].index = events[j].index) =>
            /\ ~(events[i].kind = "GET" /\ events[j].kind = "GET")
            /\ (events[i].kind = "POST" /\ events[j].kind = "POST") =>
                  events[i].url # events[j].url

\* C28: in every step of a run, failed or not, the calls made so far stay
\* as they were and at most one call is added; each batch has at most one
\* GET and at most one POST per API target; a call that returned a failure
\* is the last call of the run.
C28_NothingSentTwice ==
    [][/\ Len(runEvents') \in {Len(runEvents), Len(runEvents) + 1}
       /\ SubSeq(runEvents', 1, Len(runEvents)) = runEvents
       /\ AtMostOnce(runEvents')
       /\ \A b \in 1..Len(runPlan') :
             Len(SelectSeq(runEvents', LAMBDA e : e.kind = "POST" /\ e.index = b))
                 <= Len(runApiTargets')
       /\ (runEvents # <<>> /\ ~runEvents[Len(runEvents)].ok) => runEvents' = runEvents]_vars

\* A run that failed at the GET of its second batch after the first batch
\* was POSTed to two API targets: the two POSTs are still the record.
C28_Witness ==
    /\ runPc = "error"
    /\ Len(runApiTargets) = 2
    /\ Len(runEvents) = 4
    /\ [i \in 1..4 |-> runEvents[i].kind] = <<"GET", "POST", "POST", "GET">>
    /\ [i \in 1..4 |-> runEvents[i].ok] = <<TRUE, TRUE, TRUE, FALSE>>

\* A run that failed at the POST to the first of two API targets.
C28_WitnessPost ==
    /\ runPc = "error"
    /\ Len(runApiTargets) = 2
    /\ Len(runEvents) = 2
    /\ runEvents[2].kind = "POST"
    /\ ~runEvents[2].ok

-----------------------------------------------------------------------------
(* Claims about the categories of a listing *)

\* No slug twice in the category list, and the primary slug, when set, in it
CategoriesConsistent(listing) ==
    /\ \A i, j \in 1..Len(listing.categories) :
          listing.categories[i] = listing.categories[j] => i = j
    /\ Truthy(listing.category_slug) => InSeq(listing.category_slug, listing.categories)

\* C30: at every point of a run (after parsing with the category rules,
\* after the classifier, after payload construction, after a failure of
\* any of them) every listing has a duplicate-free category list that
\* holds its primary slug when one is set; and each posted payload carries,
\* as categorySlug, the primary slug of the listing it was built from.
C30_CategoriesConsistentAndPosted ==
    /\ \A n \in 1..Len(runListings) : CategoriesConsistent(runListings[n])
    /\ \A b \in 1..Len(runBatches) :
          /\ \A n \in 1..Len(runBatches[b].listings) :
                CategoriesConsistent(runBatches[b].listings[n])
          /\ \A i \in 1..Len(PostsOf(b)) :
                LET posted == PostsOf(b)[i].listings
                    titled == Titled(runBatches[b].listings)
                IN  /\ Len(posted) = Len(titled)
                    /\ \A k \in 1..Len(posted) :
                          /\ Truthy(titled[k].category_slug)
                          /\ titled[k].category_slug = posted[k].fields["categorySlug"]

\* A posted listing whose category list holds the slug a category rule
\* inferred and, after it, the different slug its payload was posted with.
C30_Witness ==
    \E b \in 1..Len(runBatches) :
        /\ PostsOf(b) # <<>>
        /\ Titled(runBatches[b].listings) # <<>>
        /\ Len(Titled(runBatches[b].listings)[1].categories) = 2
        /\ Titled(runBatches[b].listings)[1].category_slug =
              Titled(runBatches[b].listings)[1].categories[2]
        /\ PostsOf(b)[1].listings[1].fields["categorySlug"] =
              Titled(runBatches[b].listings)[1].category_slug

\* A posted listing whose primary slug the classifier set and payload
\* construction found in the category list already.
C30_WitnessClassified ==
    \E b \in 1..Len(runBatches) :
        /\ PostsOf(b) # <<>>
        /\ TargetOf(b).category_classifier.dict
        /\ Titled(runBatches[b].listings) # <<>>
        /\ Titled(runBatches[b].listings)[1].categories = << <<"b">> >>
        /\ PostsOf(b)[1].listings[1].fields["categorySlug"] = <<"b">>

-----------------------------------------------------------------------------
(* Specifications *)

IdleSlug ==
    /\ slugPc = "idle"
    /\ slugImpl = "crawler"
    /\ slugInput = None
    /\ slugOnce = None
    /\ slugTwice = None

IdleParse ==
    /\ parsePc = "idle"
    /\ parseTarget = TargetBase
    /\ parseHtml = <<>>
    /\ parsed = <<>>

IdleRun ==
    /\ runPc = "idle"
    /\ runConfig = RootBase
    /\ runLlm = "none"
    /\ runApiTargets = <<>>
    /\ runPlan = <<>>
    /\ runIdx = 1
    /\ runListings = <<>>
    /\ runBatches = <<>>
    /\ runPayloads = <<>>
    /\ runApiIdx = 1
    /\ runEvents = <<>>
    /\ runHtml = <<>>
    /\ runRaised = ""

IdleImport ==
    /\ impPc = "idle"
    /\ impListings = <<>>
    /\ impDefaults = ImportDefaults(None, None)
    /\ impDryRun = FALSE
    /\ impLlm = "none"
    /\ impConfig = NoPostProcessing
    /\ impIndex = 1
    /\ impEnriched = <<>>
    /\ impSuccessful = <<>>
    /\ impFailed = <<>>
    /\ impWarnings = <<>>
    /\ impReport = [total |-> 0, successful |-> 0, failed |-> 0, warnings |-> 0]
    /\ impPosts = <<>>
    /\ impExit = -1

IdleClassify ==
    /\ clsPc = "idle"
    /\ clsListings = <<>>
    /\ clsClassifier = NoClassifier
    /\ clsLlm = "none"
    /\ clsResponse = None
    /\ clsAfter = <<>>
    /\ clsInvoked = <<>>
    /\ clsSlug = None

IdleMerge ==
    /\ mergePc = "idle"
    /\ mergeRoot = NoPostProcessing
    /\ mergeTarget = NoPostProcessing
    /\ merged = NoPostProcessing

IdleProcess ==
    /\ procPc = "idle"
    /\ procPayload = NoFields
    /\ procContext = [title |-> None, snippet |-> None, summary |-> None, description |-> None]
    /\ procConfig = NoPostProcessing
    /\ procLlm = "none"
    /\ procResponse = None
    /\ procResult = [ok |-> TRUE, payload |-> NoFields, calls |-> <<>>]

InitSpecSlug == InitSlug /\ IdleParse /\ IdleRun /\ IdleImport /\ IdleProcess /\ IdleMerge /\ IdleClassify
SpecSlug == InitSpecSlug /\ [][NextSlug]_vars

InitSpecParse == InitParse /\ IdleSlug /\ IdleRun /\ IdleImport /\ IdleProcess /\ IdleMerge /\ IdleClassify
SpecParse == InitSpecParse /\ [][NextParse]_vars

InitSpecRun == InitRun /\ IdleSlug /\ IdleParse /\ IdleImport /\ IdleProcess /\ IdleMerge /\ IdleClassify
SpecRun == InitSpecRun /\ [][NextRun]_vars

InitSpecImport == InitImport /\ IdleSlug /\ IdleParse /\ IdleRun /\ IdleProcess /\ IdleMerge /\ IdleClassify
SpecImport == InitSpecImport /\ [][NextImport]_vars

\* Slug normalization on its own, or within a crawl.
InitSpecSlugInRun ==
    /\ (InitSlug /\ IdleRun) \/ (IdleSlug /\ InitRun)
    /\ IdleParse
    /\ IdleImport
    /\ IdleProcess
    /\ IdleMerge
    /\ IdleClassify
NextSlugInRun == NextSlug \/ NextRun
SpecSlugInRun == InitSpecSlugInRun /\ [][NextSlugInRun]_vars

InitSpecProcess == InitProcess /\ IdleSlug /\ IdleParse /\ IdleRun /\ IdleImport /\ IdleMerge /\ IdleClassify
SpecProcess == InitSpecProcess /\ [][NextProcess]_vars

InitSpecMerge == InitMerge /\ IdleSlug /\ IdleParse /\ IdleRun /\ IdleImport /\ IdleProcess /\ IdleClassify
SpecMerge == InitSpecMerge /\ [][NextMerge]_vars

InitSpecClassify == InitClassify /\ IdleSlug /\ IdleParse /\ IdleRun /\ IdleImport /\ IdleProcess /\ IdleMerge
SpecClassify == InitSpecClassify /\ [][NextClassify]_vars

====
